---- MODULE Spec2Model ----
(***************************************************************************)
(* Wishlist backend (dmitrysvd/wishes-backend): the wish table, the        *)
(* user_following table and the request handlers of app/routers/wishes.py  *)
(* and app/routers/users.py, each handler taken as one atomic request.     *)
(***************************************************************************)
EXTENDS Integers, FiniteSets, Sequences, Bags, TLC

\* ------------------------------------------------------------------ bounds
NumUsers == 3
MaxWishes == 1
MaxFollows == 1
MaxAccounts == 22

Users == 1..NumUsers
WishIds == 1..MaxWishes

\* Values a client can send as the name of a wish (description, price and
\* link are written by the same assignments and are carried by this field).
Names == {"bike", "book"}

\* ------------------------------------------------------- program constants
NoUser == 0
NoImage == "none"
ImageHash == "md5"
HTTP_200_OK == 200
HTTP_403_FORBIDDEN == 403
HTTP_404_NOT_FOUND == 404
HTTP_409_CONFLICT == 409
HTTP_500_INTERNAL_SERVER_ERROR == 500
SearchLimit == 20

\* --------------------------------------------------------------- the state
VARIABLES
    user,            \* ids of the rows of table "user"
    wish,            \* table "wish": existing wish id -> row
    next_wish_id,    \* wish ids handed out so far (uuid4 never repeats)
    user_following,  \* table "user_following": <<follower_id, followed_id>>
    last,            \* the request served last and its response
    display_name,    \* column user.display_name: user id -> string
    search,          \* the search request served last and the users it found
    identity,        \* columns user.email, vk_id, firebase_uid: user id -> row
    firebase_push_token,  \* column user.firebase_push_token: user id -> token
    created_at,      \* column wish.created_at: wish id -> minutes
    now,             \* the clock, in minutes
    pushes,          \* the bag of messages handed to Firebase Cloud Messaging
    birth_date,      \* column user.birth_date: user id -> day of the year
    push_sending_log,  \* table push_sending_log: a bag of rows
    pre_bday_push_for_followers_last_sent_at,  \* column of table "user"
    runs,            \* how many times in succession a cron scan has run
    session,         \* the database session of each user's request in flight
    background_tasks,\* the tasks added to BackgroundTasks and not yet run
    birthday         \* a call of get_next_birthday: its inputs and its result

\* What GET /users/search reads and answers.
search_vars == <<display_name, search>>

notify_vars ==
    <<firebase_push_token, created_at, now, pushes, birth_date,
      push_sending_log, pre_bday_push_for_followers_last_sent_at>>

vars ==
    <<user, wish, next_wish_id, user_following, last, search_vars, identity,
      notify_vars, runs, session, background_tasks, birthday>>

NoRequest == [op |-> "none", status |-> 0, detail |-> ""]

\* NULL in user.pre_bday_push_for_followers_last_sent_at
NoStamp == -1

\* No call of get_next_birthday: a date is <<month, day>>, now a date with
\* its year and the minute of the day, the result a day counted from the
\* first of January of FirstYear, or an exception.
NoResult == [raised |-> FALSE, day |-> -1]
NoCall == [birth_date |-> <<1, 1>>,
           now |-> [year |-> 0, date |-> <<1, 1>>, minute |-> 0],
           next_birthday |-> NoResult]

\* No request of the user is in flight: no session is open, and status is
\* the answer to the user's last request, 0 before the first.
NoSession == [pc |-> "closed", wish_id |-> 0, rows |-> {}, stale |-> FALSE,
              status |-> 0]

\* The response as the client sees it: the status code and, for an
\* HTTPException, its detail.
Response(op, status, detail) ==
    [op |-> op, status |-> status, detail |-> detail]

Ok(op) == Response(op, HTTP_200_OK, "")

\* A cron script that ran to its end, and one that ended in a traceback.
Exit(script) == Response(script, 0, "")
Traceback(script, exception) == Response(script, 1, exception)

\* An exception no handler catches.
InternalServerError(op) ==
    Response(op, HTTP_500_INTERNAL_SERVER_ERROR, "Internal Server Error")

\* ------------------------------------------------------------ db.py: Wish
NewWish(user_id, name) ==
    [user_id |-> user_id,
     reserved_by_id |-> NoUser,
     name |-> name,
     image |-> NoImage,
     is_archived |-> FALSE,
     is_reservation_notification_sent |-> FALSE,
     is_creation_notification_sent |-> FALSE]

\* CheckConstraint('user_id <> reserved_by_id'); a NULL reserved_by_id makes
\* the SQL expression NULL, which satisfies a CHECK.
wish_user_not_equal_reserved_by(row) ==
    row.reserved_by_id = NoUser \/ row.user_id # row.reserved_by_id

\* The user_following table without its check constraint.
follower_not_equal_followed_absent(edge) ==
    TRUE

\* CheckConstraint('follower_id <> followed_id')
follower_not_equal_followed(edge) ==
    edge[1] # edge[2]

\* The active wish query without its filter: select(cls).
get_active_wish_query_unfiltered ==
    DOMAIN wish

\* select(cls).where(~cls.is_archived)
get_active_wish_query ==
    {w \in DOMAIN wish : ~wish[w].is_archived}

\* db.commit() of a changed wish table: the flush raises IntegrityError when
\* a row violates the table's check constraint, the request ends as 500 and
\* nothing is written.
CommitWish(op, new_wish) ==
    IF \A w \in DOMAIN new_wish : wish_user_not_equal_reserved_by(new_wish[w])
    THEN /\ wish' = new_wish
         /\ last' = Ok(op)
    ELSE /\ wish' = wish
         /\ last' = InternalServerError(op)

\* raise HTTPException(status, detail): nothing is written.
HTTPException(op, status, detail) ==
    /\ last' = Response(op, status, detail)
    /\ UNCHANGED <<user, wish, next_wish_id, user_following>>

\* ------------------------------------------------- dependencies.py
\* get_current_user_wish without the comparison of wish.user with the caller.
get_current_user_wish_any_user(wish_id, current_user) ==
    IF wish_id \notin DOMAIN wish THEN HTTP_404_NOT_FOUND ELSE HTTP_200_OK

\* get_current_user_wish: the status the dependency raises, or 200 when it
\* hands the wish to the handler.
get_current_user_wish(wish_id, current_user) ==
    IF wish_id \notin DOMAIN wish THEN HTTP_404_NOT_FOUND
    ELSE IF wish[wish_id].user_id # current_user THEN HTTP_403_FORBIDDEN
    ELSE HTTP_200_OK

\* The default detail of an HTTPException raised with a status only.
StatusPhrase(status) ==
    IF status = HTTP_404_NOT_FOUND THEN "Not Found" ELSE "Forbidden"

\* ------------------------------------------------------ routers/wishes.py
add_wish(current_user, name) ==
    /\ current_user \in user
    /\ next_wish_id <= MaxWishes
    /\ next_wish_id' = next_wish_id + 1
    /\ CommitWish("add_wish",
                  [w \in DOMAIN wish \cup {next_wish_id} |->
                      IF w = next_wish_id THEN NewWish(current_user, name)
                      ELSE wish[w]])
    /\ UNCHANGED <<user, user_following>>

\* GET /wishes
my_wishes(current_user) ==
    {w \in get_active_wish_query : wish[w].user_id = current_user}

\* GET /reserved_wishes
my_reserved_wishes(current_user) ==
    {w \in get_active_wish_query : wish[w].reserved_by_id = current_user}

\* GET /archived_wishes
archived_wishes(current_user) ==
    {w \in DOMAIN wish : wish[w].user_id = current_user /\ wish[w].is_archived}

\* GET /users/{user_id}/wishes: the status and the rows returned
user_wishes(user_id) ==
    IF user_id \notin user
    THEN [status |-> HTTP_404_NOT_FOUND, rows |-> {}]
    ELSE [status |-> HTTP_200_OK,
          rows |-> {w \in get_active_wish_query : wish[w].user_id = user_id}]

\* get_wish hiding an archived wish from everybody, its owner included.
get_wish_owner_blind(wish_id, current_user) ==
    IF wish_id \notin DOMAIN wish \/ wish[wish_id].is_archived
    THEN [status |-> HTTP_404_NOT_FOUND, rows |-> {}]
    ELSE [status |-> HTTP_200_OK, rows |-> {wish[wish_id]}]

\* GET /wishes/{wish_id}: the status and the row returned
get_wish(wish_id, current_user) ==
    IF wish_id \notin DOMAIN wish
       \/ (wish[wish_id].is_archived /\ wish[wish_id].user_id # current_user)
    THEN [status |-> HTTP_404_NOT_FOUND, rows |-> {}]
    ELSE [status |-> HTTP_200_OK, rows |-> {wish[wish_id]}]

\* A handler behind Depends(get_current_user_wish) that rewrites the row.
OwnerMutation(op, current_user, wish_id, new_row) ==
    /\ current_user \in user
    /\ LET status == get_current_user_wish(wish_id, current_user) IN
       IF status # HTTP_200_OK
       THEN HTTPException(op, status, StatusPhrase(status))
       ELSE /\ CommitWish(op, [wish EXCEPT ![wish_id] = new_row])
            /\ UNCHANGED <<user, next_wish_id, user_following>>

update_wish(current_user, wish_id, name) ==
    OwnerMutation("update_wish", current_user, wish_id,
                  [wish[wish_id] EXCEPT !.name = name])

upload_wish_image(current_user, wish_id) ==
    OwnerMutation("upload_wish_image", current_user, wish_id,
                  [wish[wish_id] EXCEPT !.image = ImageHash])

delete_wish_image(current_user, wish_id) ==
    OwnerMutation("delete_wish_image", current_user, wish_id,
                  [wish[wish_id] EXCEPT !.image = NoImage])

\* archive_wish that also frees the wish.
archive_wish_clearing_reservation(current_user, wish_id) ==
    OwnerMutation("archive_wish", current_user, wish_id,
                  [wish[wish_id] EXCEPT !.is_archived = TRUE,
                                        !.reserved_by_id = NoUser])

archive_wish(current_user, wish_id) ==
    OwnerMutation("archive_wish", current_user, wish_id,
                  [wish[wish_id] EXCEPT !.is_archived = TRUE])

unarchive_wish(current_user, wish_id) ==
    OwnerMutation("unarchive_wish", current_user, wish_id,
                  [wish[wish_id] EXCEPT !.is_archived = FALSE])

delete_wish(current_user, wish_id) ==
    /\ current_user \in user
    /\ LET status == get_current_user_wish(wish_id, current_user) IN
       IF status # HTTP_200_OK
       THEN HTTPException("delete_wish", status, StatusPhrase(status))
       ELSE /\ CommitWish("delete_wish", [w \in DOMAIN wish \ {wish_id} |-> wish[w]])
            /\ UNCHANGED <<user, next_wish_id, user_following>>

\* reserve_wish as the first schema had it: no own-wish guard in the handler
\* and no check constraint on the table (migration 28a00d13a644).
reserve_wish_unprotected(current_user, wish_id) ==
    /\ current_user \in user
    /\ IF wish_id \notin get_active_wish_query
       THEN HTTPException("reserve_wish", HTTP_404_NOT_FOUND, "Wish not found")
       ELSE IF wish[wish_id].reserved_by_id # NoUser
               /\ wish[wish_id].reserved_by_id # current_user
       THEN HTTPException("reserve_wish", HTTP_403_FORBIDDEN,
                          "Reserved by someone else")
       ELSE /\ wish' = [wish EXCEPT ![wish_id].reserved_by_id = current_user]
            /\ last' = Ok("reserve_wish")
            /\ UNCHANGED <<user, next_wish_id, user_following>>

\* reserve_wish with the own-wish guard left out of the handler: the check
\* constraint alone stops the write.
reserve_wish_no_owner_guard(current_user, wish_id) ==
    /\ current_user \in user
    /\ IF wish_id \notin get_active_wish_query
       THEN HTTPException("reserve_wish", HTTP_404_NOT_FOUND, "Wish not found")
       ELSE IF wish[wish_id].reserved_by_id # NoUser
               /\ wish[wish_id].reserved_by_id # current_user
       THEN HTTPException("reserve_wish", HTTP_403_FORBIDDEN,
                          "Reserved by someone else")
       ELSE /\ CommitWish("reserve_wish",
                          [wish EXCEPT ![wish_id].reserved_by_id = current_user])
            /\ UNCHANGED <<user, next_wish_id, user_following>>

\* reserve_wish with the reserved-by-someone-else guard left out: the last
\* caller takes the reservation over.
reserve_wish_takeover(current_user, wish_id) ==
    /\ current_user \in user
    /\ IF wish_id \notin get_active_wish_query
       THEN HTTPException("reserve_wish", HTTP_404_NOT_FOUND, "Wish not found")
       ELSE IF wish[wish_id].user_id = current_user
       THEN HTTPException("reserve_wish", HTTP_403_FORBIDDEN,
                          "Cannot reserve own wish")
       ELSE /\ CommitWish("reserve_wish",
                          [wish EXCEPT ![wish_id].reserved_by_id = current_user])
            /\ UNCHANGED <<user, next_wish_id, user_following>>

\* reserve_wish looking the wish up with select(Wish) instead of the active
\* wish query.
reserve_wish_any_wish(current_user, wish_id) ==
    /\ current_user \in user
    /\ IF wish_id \notin DOMAIN wish
       THEN HTTPException("reserve_wish", HTTP_404_NOT_FOUND, "Wish not found")
       ELSE IF wish[wish_id].user_id = current_user
       THEN HTTPException("reserve_wish", HTTP_403_FORBIDDEN,
                          "Cannot reserve own wish")
       ELSE IF wish[wish_id].reserved_by_id # NoUser
               /\ wish[wish_id].reserved_by_id # current_user
       THEN HTTPException("reserve_wish", HTTP_403_FORBIDDEN,
                          "Reserved by someone else")
       ELSE /\ CommitWish("reserve_wish",
                          [wish EXCEPT ![wish_id].reserved_by_id = current_user])
            /\ UNCHANGED <<user, next_wish_id, user_following>>

reserve_wish(current_user, wish_id) ==
    /\ current_user \in user
    /\ IF wish_id \notin get_active_wish_query
       THEN HTTPException("reserve_wish", HTTP_404_NOT_FOUND, "Wish not found")
       ELSE IF wish[wish_id].user_id = current_user
       THEN HTTPException("reserve_wish", HTTP_403_FORBIDDEN,
                          "Cannot reserve own wish")
       ELSE IF wish[wish_id].reserved_by_id # NoUser
               /\ wish[wish_id].reserved_by_id # current_user
       THEN HTTPException("reserve_wish", HTTP_403_FORBIDDEN,
                          "Reserved by someone else")
       ELSE /\ CommitWish("reserve_wish", [wish EXCEPT ![wish_id].reserved_by_id = current_user])
            /\ UNCHANGED <<user, next_wish_id, user_following>>

\* cancel_wish_reservation comparing reserved_by with the caller without the
\* "wish.reserved_by and" test: an unreserved wish is refused.
cancel_wish_reservation_strict(current_user, wish_id) ==
    /\ current_user \in user
    /\ IF wish_id \notin DOMAIN wish
       THEN HTTPException("cancel_wish_reservation", HTTP_404_NOT_FOUND,
                          "Wish not found")
       ELSE IF wish[wish_id].reserved_by_id # current_user
       THEN HTTPException("cancel_wish_reservation", HTTP_403_FORBIDDEN,
                          "Reserved by someone else")
       ELSE /\ CommitWish("cancel_wish_reservation",
                          [wish EXCEPT ![wish_id].reserved_by_id = NoUser])
            /\ UNCHANGED <<user, next_wish_id, user_following>>

\* cancel_wish_reservation that also lets the owner of the wish clear it.
cancel_wish_reservation_by_owner(current_user, wish_id) ==
    /\ current_user \in user
    /\ IF wish_id \notin DOMAIN wish
       THEN HTTPException("cancel_wish_reservation", HTTP_404_NOT_FOUND,
                          "Wish not found")
       ELSE IF wish[wish_id].reserved_by_id # NoUser
               /\ wish[wish_id].reserved_by_id # current_user
               /\ wish[wish_id].user_id # current_user
       THEN HTTPException("cancel_wish_reservation", HTTP_403_FORBIDDEN,
                          "Reserved by someone else")
       ELSE /\ CommitWish("cancel_wish_reservation",
                          [wish EXCEPT ![wish_id].reserved_by_id = NoUser])
            /\ UNCHANGED <<user, next_wish_id, user_following>>

\* cancel_wish_reservation looking the wish up with get_active_wish_query,
\* as reserve_wish does.
cancel_wish_reservation_active_only(current_user, wish_id) ==
    /\ current_user \in user
    /\ IF wish_id \notin get_active_wish_query
       THEN HTTPException("cancel_wish_reservation", HTTP_404_NOT_FOUND,
                          "Wish not found")
       ELSE IF wish[wish_id].reserved_by_id # NoUser
               /\ wish[wish_id].reserved_by_id # current_user
       THEN HTTPException("cancel_wish_reservation", HTTP_403_FORBIDDEN,
                          "Reserved by someone else")
       ELSE /\ CommitWish("cancel_wish_reservation",
                          [wish EXCEPT ![wish_id].reserved_by_id = NoUser])
            /\ UNCHANGED <<user, next_wish_id, user_following>>

cancel_wish_reservation(current_user, wish_id) ==
    /\ current_user \in user
    /\ IF wish_id \notin DOMAIN wish
       THEN HTTPException("cancel_wish_reservation", HTTP_404_NOT_FOUND,
                          "Wish not found")
       ELSE IF wish[wish_id].reserved_by_id # NoUser
               /\ wish[wish_id].reserved_by_id # current_user
       THEN HTTPException("cancel_wish_reservation", HTTP_403_FORBIDDEN,
                          "Reserved by someone else")
       ELSE /\ CommitWish("cancel_wish_reservation", [wish EXCEPT ![wish_id].reserved_by_id = NoUser])
            /\ UNCHANGED <<user, next_wish_id, user_following>>

\* ------------------------------------------------------- routers/users.py
\* db.delete(user) reduced to the DELETE of the user row alone, with no
\* relationship cascade and no ON DELETE CASCADE.
DeleteUserRow_without_cascade(u) ==
    /\ user' = user \ {u}
    /\ wish' = wish
    /\ user_following' = user_following

\* db.delete(user) that leaves reserved_by_id of User.reserved_wishes alone.
DeleteUserRow_keep_reserved_by(u) ==
    LET kept == {w \in DOMAIN wish : wish[w].user_id # u} IN
    /\ user' = user \ {u}
    /\ wish' = [w \in kept |-> wish[w]]
    /\ user_following' = {e \in user_following : e[1] # u /\ e[2] # u}

\* db.delete(user): User.wishes cascades 'all, delete-orphan', the rows of
\* User.reserved_wishes (no cascade) get reserved_by_id = NULL, and the
\* user_following rows of either endpoint go with the user.
DeleteUserRow(u) ==
    LET kept == {w \in DOMAIN wish : wish[w].user_id # u} IN
    /\ user' = user \ {u}
    /\ wish' = [w \in kept |->
                   IF wish[w].reserved_by_id = u
                   THEN [wish[w] EXCEPT !.reserved_by_id = NoUser]
                   ELSE wish[w]]
    /\ user_following' = {e \in user_following : e[1] # u /\ e[2] # u}

\* delete_firebase_user calls the identity provider first; when that call
\* raises, the request ends as 500 before the session is touched.
delete_own_account(current_user, firebase_ok) ==
    /\ current_user \in user
    /\ IF ~firebase_ok
       THEN HTTPException("delete_own_account",
                          HTTP_500_INTERNAL_SERVER_ERROR,
                          "Internal Server Error")
       ELSE /\ DeleteUserRow(current_user)
            /\ last' = Ok("delete_own_account")
            /\ UNCHANGED next_wish_id

\* db.commit() of an INSERT into user_following: the composite primary key
\* and the check constraint are enforced by the database.
CommitFollow(op, edge) ==
    IF edge \notin user_following /\ follower_not_equal_followed(edge)
    THEN /\ user_following' = user_following \cup {edge}
         /\ last' = Ok(op)
    ELSE /\ user_following' = user_following
         /\ last' = InternalServerError(op)

\* user.follows: the users current_user follows
follows(u) == {e[2] : e \in {f \in user_following : f[1] = u}}

\* user.followed_by
followed_by(u) == {e[1] : e \in {f \in user_following : f[2] = u}}

\* follow_user without the "follow_user in user.follows" early return.
follow_user_always_append(current_user, follow_user_id) ==
    /\ current_user \in user
    /\ IF follow_user_id \notin user
       THEN HTTPException("follow_user", HTTP_500_INTERNAL_SERVER_ERROR,
                          "Internal Server Error")
       ELSE /\ CommitFollow("follow_user",
                            <<current_user, follow_user_id>>)
            /\ UNCHANGED <<user, wish, next_wish_id>>

follow_user(current_user, follow_user_id) ==
    /\ current_user \in user
    /\ IF follow_user_id \notin user      \* scalar_one() raises NoResultFound
       THEN HTTPException("follow_user", HTTP_500_INTERNAL_SERVER_ERROR,
                          "Internal Server Error")
       ELSE IF follow_user_id \in follows(current_user)
       THEN HTTPException("follow_user", HTTP_200_OK, "")
       ELSE /\ CommitFollow("follow_user",
                            <<current_user, follow_user_id>>)
            /\ UNCHANGED <<user, wish, next_wish_id>>

\* unfollow_user without the "unfollow_user not in user.follows" early
\* return: list.remove of an absent user raises ValueError.
unfollow_user_always_remove(current_user, unfollow_user_id) ==
    /\ current_user \in user
    /\ IF unfollow_user_id \notin user
          \/ unfollow_user_id \notin follows(current_user)
       THEN HTTPException("unfollow_user", HTTP_500_INTERNAL_SERVER_ERROR,
                          "Internal Server Error")
       ELSE /\ user_following' =
                   user_following \ {<<current_user, unfollow_user_id>>}
            /\ last' = Ok("unfollow_user")
            /\ UNCHANGED <<user, wish, next_wish_id>>

unfollow_user(current_user, unfollow_user_id) ==
    /\ current_user \in user
    /\ IF unfollow_user_id \notin user    \* scalar_one() raises NoResultFound
       THEN HTTPException("unfollow_user", HTTP_500_INTERNAL_SERVER_ERROR,
                          "Internal Server Error")
       ELSE IF unfollow_user_id \notin follows(current_user)
       THEN HTTPException("unfollow_user", HTTP_200_OK, "")
       ELSE /\ user_following' =
                   user_following \ {<<current_user, unfollow_user_id>>}
            /\ last' = Ok("unfollow_user")
            /\ UNCHANGED <<user, wish, next_wish_id>>

\* ------------------------------------------------- strings (str, LIKE)
\* A string is the sequence of its characters.
Ann == <<"A", "n", "n">>
Bob == <<"B", "o", "b">>

\* The upper-case form of the letters used here.
UpperCase == [a |-> "A", b |-> "B", n |-> "N", o |-> "O", x |-> "X"]

\* str.isspace of one character
isspace(c) == c = " "

upper_char(c) == IF c \in DOMAIN UpperCase THEN UpperCase[c] ELSE c

lower_char(c) ==
    IF \E k \in DOMAIN UpperCase : UpperCase[k] = c
    THEN CHOOSE k \in DOMAIN UpperCase : UpperCase[k] = c
    ELSE c

\* str.strip(): leading and trailing whitespace removed
strip(s) ==
    LET kept == {i \in DOMAIN s : ~isspace(s[i])} IN
    IF kept = {} THEN <<>>
    ELSE SubSeq(s,
                CHOOSE i \in kept : \A j \in kept : i <= j,
                CHOOSE i \in kept : \A j \in kept : i >= j)

\* str.lower()
lower(s) == [i \in DOMAIN s |-> lower_char(s[i])]

\* str.capitalize(): first character upper-cased, the rest lower-cased
capitalize(s) ==
    [i \in DOMAIN s |-> IF i = 1 THEN upper_char(s[i]) ELSE lower_char(s[i])]

\* column.icontains(other): lower(column) LIKE '%' || lower(other) || '%'
icontains(column, other) ==
    \E i \in 0..(Len(column) - Len(other)) :
       SubSeq(lower(column), i + 1, i + Len(other)) = lower(other)

\* The subsets of rows with k elements.
RECURSIVE Combinations(_, _)
Combinations(rows, k) ==
    IF k = 0 THEN {{}}
    ELSE UNION {{c \cup {r} : c \in Combinations(rows \ {r}, k - 1)} : r \in rows}

\* .limit(n) of a query with no ORDER BY: any n of the rows, or all of them
\* when there are no more than n.
limit(rows, n) ==
    IF Cardinality(rows) <= n THEN {rows}
    ELSE {rows \ dropped : dropped \in Combinations(rows, Cardinality(rows) - n)}

\* ----------------------------------------- routers/users.py: search_users
NoSearch == [current_user |-> NoUser, q |-> <<>>, found_users |-> {}]

\* The WHERE clause of search_users without (User.id != current_user.id).
search_users_query_with_caller(q, current_user) ==
    {u \in user :
        \/ icontains(display_name[u], capitalize(q))
        \/ icontains(display_name[u], lower(q))}

\* The WHERE clause of search_users.
search_users_query(q, current_user) ==
    {u \in user :
        /\ u # current_user
        /\ \/ icontains(display_name[u], capitalize(q))
           \/ icontains(display_name[u], lower(q))}

\* GET /users/search: get_annotated_users returns the rows of found_users.
search_users(q, current_user) ==
    /\ current_user \in user
    /\ \E found_users \in
             IF strip(q) = <<>> THEN {{}}
             ELSE limit(search_users_query(strip(q), current_user), SearchLimit) :
          search' = [current_user |-> current_user, q |-> q,
                     found_users |-> found_users]
    /\ last' = Ok("search_users")
    /\ UNCHANGED <<user, wish, next_wish_id, user_following, display_name>>

\* ------------------------------------------------------- routers/auth.py
\* NULL in user.email and in user.vk_id
NoEmail == "none"
NoVkId == 0

\* What the identity providers can report: e-mail addresses, VK user ids and
\* Firebase uids.
Emails == {"ann@mail", "bob@mail"}
VkIds == {101, 102}
FirebaseUids == 1..NumUsers

\* unique=True on email, vk_id and firebase_uid; NULLs do not collide.
UniqueUsers(rows) ==
    \A a \in DOMAIN rows, b \in DOMAIN rows :
       a # b => /\ rows[a].firebase_uid # rows[b].firebase_uid
                /\ rows[a].email = NoEmail \/ rows[a].email # rows[b].email
                /\ rows[a].vk_id = NoVkId \/ rows[a].vk_id # rows[b].vk_id

\* db.add(user); db.commit(): the flush raises IntegrityError when a unique
\* column would hold a value twice; nothing catches it and nothing is
\* written.
CommitUser(op, rows) ==
    IF UniqueUsers(rows)
    THEN /\ user' = DOMAIN rows
         /\ identity' = rows
         /\ last' = Ok(op)
    ELSE /\ UNCHANGED <<user, identity>>
         /\ last' = InternalServerError(op)

\* The result of scalars(...).one_or_none() on the rows found.
MultipleResultsFound(found) == Cardinality(found) > 1

\* User(...) gets id = uuid4(): an id no row has.
NewUserId == CHOOSE id \in Users \ user : \A other \in Users \ user : id <= other

\* auth_vk without the second lookup, by e-mail.
auth_vk_without_email_lookup(vk_user_id, vk_email, already_exists) ==
    LET found == {r \in user : identity[r].vk_id = vk_user_id} IN
    /\ UNCHANGED <<wish, next_wish_id, user_following>>
    /\ IF MultipleResultsFound(found)
       THEN /\ last' = InternalServerError("auth_vk")
            /\ UNCHANGED <<user, identity>>
       ELSE IF found = {}
       THEN IF already_exists
            THEN /\ last' = Response("auth_vk", HTTP_409_CONFLICT,
                                      "email already exists")
                 /\ UNCHANGED <<user, identity>>
            ELSE /\ Users \ user # {}
                 /\ \E uid \in FirebaseUids \
                                {identity[r].firebase_uid : r \in user} :
                       CommitUser("auth_vk",
                                  [r \in user \cup {NewUserId} |->
                                      IF r = NewUserId
                                      THEN [email |-> vk_email,
                                            vk_id |-> vk_user_id,
                                            firebase_uid |-> uid]
                                      ELSE identity[r]])
       ELSE CommitUser("auth_vk",
                       [identity EXCEPT ![CHOOSE r \in found : TRUE].vk_id =
                                           vk_user_id])

\* auth_vk: vk_user_id is what VK reports for the access token, vk_email what
\* the client sent, already_exists whether create_firebase_user raises
\* AlreadyExistsError.
auth_vk(vk_user_id, vk_email, already_exists) ==
    LET by_vk_id == {r \in user : identity[r].vk_id = vk_user_id}
        found == IF by_vk_id = {} /\ vk_email # NoEmail
                 THEN {r \in user : identity[r].email = vk_email}
                 ELSE by_vk_id
    IN
    /\ UNCHANGED <<wish, next_wish_id, user_following>>
    /\ IF MultipleResultsFound(found)
       THEN /\ last' = InternalServerError("auth_vk")
            /\ UNCHANGED <<user, identity>>
       ELSE IF found = {}
       THEN IF already_exists
            THEN /\ last' = Response("auth_vk", HTTP_409_CONFLICT,
                                      "email already exists")
                 /\ UNCHANGED <<user, identity>>
            ELSE /\ Users \ user # {}
                 /\ \E uid \in FirebaseUids \
                                {identity[r].firebase_uid : r \in user} :
                       CommitUser("auth_vk",
                                  [r \in user \cup {NewUserId} |->
                                      IF r = NewUserId
                                      THEN [email |-> vk_email,
                                            vk_id |-> vk_user_id,
                                            firebase_uid |-> uid]
                                      ELSE identity[r]])
       ELSE CommitUser("auth_vk",
                       [identity EXCEPT ![CHOOSE r \in found : TRUE].vk_id =
                                           vk_user_id])

\* POST /auth/vk/web: the e-mail is the one VK returns with the access token.
auth_vk_web(vk_user_id, vk_email, already_exists) ==
    auth_vk(vk_user_id, vk_email, already_exists)

\* POST /auth/vk/mobile: the e-mail is the one in the body of the request.
auth_vk_mobile(vk_user_id, email, already_exists) ==
    auth_vk(vk_user_id, email, already_exists)

\* auth_firebase: token_valid is whether verify_id_token accepts the token,
\* uid what it decodes to, firebase_email and email_verified what
\* get_firebase_user_data reports for that uid.
auth_firebase(token_valid, uid, firebase_email, email_verified) ==
    LET by_uid == {r \in user : identity[r].firebase_uid = uid}
        found == IF by_uid = {} /\ email_verified
                 THEN {r \in user : identity[r].email = firebase_email}
                 ELSE by_uid
    IN
    /\ UNCHANGED <<wish, next_wish_id, user_following>>
    /\ IF ~token_valid
       THEN /\ last' = Response("auth_firebase", HTTP_403_FORBIDDEN,
                                 "Not authenticated")
            /\ UNCHANGED <<user, identity>>
       ELSE IF MultipleResultsFound(found)
       THEN /\ last' = InternalServerError("auth_firebase")
            /\ UNCHANGED <<user, identity>>
       ELSE IF found = {}
       THEN /\ Users \ user # {}
            /\ CommitUser("auth_firebase",
                          [r \in user \cup {NewUserId} |->
                              IF r = NewUserId
                              THEN [email |-> firebase_email,
                                    vk_id |-> NoVkId,
                                    firebase_uid |-> uid]
                              ELSE identity[r]])
       ELSE CommitUser("auth_firebase",
                       [identity EXCEPT ![CHOOSE r \in found : TRUE].firebase_uid =
                                           uid])

\* ------------------------------------------------------------ firebase.py
\* NULL in user.firebase_push_token, and the tokens devices register.
NoToken == "none"
Tokens == {"tokenA", "tokenB"}

\* def send_push(target_users, title, body, link=None)
send_push_parameters == {"target_users", "title", "body", "link"}

\* A script's calls of send_push, each a record of the keywords passed and
\* the messages to send. A call with a keyword that is no parameter raises
\* TypeError before the body runs, and the script ends there.
send_push(script, calls) ==
    IF calls = {}
    THEN /\ last' = Exit(script)
         /\ UNCHANGED pushes
    ELSE IF \E c \in calls : ~(c.keywords \subseteq send_push_parameters)
    THEN /\ last' = Traceback(script, "TypeError")
         /\ UNCHANGED pushes
    ELSE /\ last' = Exit(script)
         /\ pushes' = pushes (+) SetToBag(UNION {c.messages : c \in calls})

\* A message to one device.
Message(token, reason, reason_user) ==
    [token |-> token, reason |-> reason, reason_user |-> reason_user, at |-> now]

\* The message was handed over in the step taken.
sent(message) == CopiesIn(message, pushes') > CopiesIn(message, pushes)

\* POST /save_push_token
save_push_token(current_user, push_token) ==
    /\ current_user \in user
    /\ firebase_push_token' =
          [firebase_push_token EXCEPT ![current_user] = push_token]
    /\ last' = Ok("save_push_token")
    /\ UNCHANGED <<user, wish, next_wish_id, user_following, created_at, now,
                   pushes, birth_date, push_sending_log,
                   pre_bday_push_for_followers_last_sent_at>>

\* -------------------------------------------------------- notifications.py
\* Wish.created_at has server_default=func.now().
add_wish_now(current_user, name) ==
    /\ add_wish(current_user, name)
    /\ created_at' = [w \in DOMAIN wish' |->
                        IF w \in DOMAIN created_at THEN created_at[w] ELSE now]
    /\ UNCHANGED <<firebase_push_token, now, pushes, birth_date,
                   push_sending_log,
                   pre_bday_push_for_followers_last_sent_at>>

\* The wishes the reservation scan is about: reserved and not yet announced.
reserved_not_notified ==
    {w \in DOMAIN wish : /\ wish[w].reserved_by_id # NoUser
                         /\ ~wish[w].is_reservation_notification_sent}

\* users_with_reserved_wishes_q
users_with_reserved_wishes ==
    {u \in user : \E w \in reserved_not_notified : wish[w].user_id = u}

\* send_reservation_notifincations with an UPDATE that marks the wishes of
\* the holders of one of the tokens only.
send_reservation_notifincations_one_token ==
    LET push_tokens == {firebase_push_token[u] :
                           u \in users_with_reserved_wishes} \ {NoToken}
        marked_tokens == IF push_tokens = {} THEN {}
                         ELSE {CHOOSE t \in push_tokens : TRUE}
    IN
    /\ wish' = [w \in DOMAIN wish |->
                  IF firebase_push_token[wish[w].user_id] \in marked_tokens
                  THEN [wish[w] EXCEPT !.is_reservation_notification_sent = TRUE]
                  ELSE wish[w]]
    /\ send_push("send_reservation_notifincations",
                 {[keywords |-> {"push_tokens", "title", "body"},
                   messages |-> {Message(t, "reservation", NoUser) :
                                    t \in push_tokens}]})
    /\ UNCHANGED <<user, next_wish_id, user_following, firebase_push_token,
                   created_at, now, birth_date, push_sending_log,
                   pre_bday_push_for_followers_last_sent_at>>

\* send_reservation_notifincations: the UPDATE marks every wish whose owner
\* holds one of the tokens and is committed before send_push is called.
send_reservation_notifincations ==
    LET push_tokens == {firebase_push_token[u] :
                           u \in users_with_reserved_wishes} \ {NoToken}
    IN
    /\ wish' = [w \in DOMAIN wish |->
                  IF firebase_push_token[wish[w].user_id] \in push_tokens
                  THEN [wish[w] EXCEPT !.is_reservation_notification_sent = TRUE]
                  ELSE wish[w]]
    /\ send_push("send_reservation_notifincations",
                 {[keywords |-> {"push_tokens", "title", "body"},
                   messages |-> {Message(t, "reservation", NoUser) :
                                    t \in push_tokens}]})
    /\ UNCHANGED <<user, next_wish_id, user_following, firebase_push_token,
                   created_at, now, birth_date, push_sending_log,
                   pre_bday_push_for_followers_last_sent_at>>

\* timedelta(minutes=30)
CreationDelay == 30

\* wishes_filter_cond
wishes_filter_cond ==
    {w \in DOMAIN wish : /\ ~wish[w].is_creation_notification_sent
                         /\ created_at[w] < now - CreationDelay}

\* send_wish_creation_notifications: the UPDATE is committed before the loop
\* over the owners; an owner whose followers hold no token gets no send_push
\* call.
send_wish_creation_notifications ==
    LET users_with_new_wishes == {wish[w].user_id : w \in wishes_filter_cond}
        followers_push_tokens(u) ==
            {firebase_push_token[f] : f \in followed_by(u)} \ {NoToken}
    IN
    /\ wish' = [w \in DOMAIN wish |->
                  IF w \in wishes_filter_cond
                  THEN [wish[w] EXCEPT !.is_creation_notification_sent = TRUE]
                  ELSE wish[w]]
    /\ send_push("send_wish_creation_notifications",
                 {[keywords |-> {"push_tokens", "title", "body", "link"},
                   messages |-> {Message(t, "wish_creation", u) :
                                    t \in followers_push_tokens(u)}] :
                     u \in {o \in users_with_new_wishes :
                               followers_push_tokens(o) # {}}})
    /\ UNCHANGED <<user, next_wish_id, user_following, firebase_push_token,
                   created_at, now, birth_date, push_sending_log,
                   pre_bday_push_for_followers_last_sent_at>>

\* Time passes.
Tick(minutes) ==
    /\ now' = now + minutes
    /\ last' = Response("Tick", 0, "")
    /\ UNCHANGED <<user, wish, next_wish_id, user_following,
                   firebase_push_token, created_at, pushes, birth_date,
                   push_sending_log,
                   pre_bday_push_for_followers_last_sent_at>>

\* ------------------------------------------------- cron_scripts/at_noon.py
\* NULL in user.birth_date; a birth date is the day of the year it falls on,
\* counted from 0, in years of 365 days.
NoDate == -1
MinutesPerDay == 1440
DaysPerYear == 365

UPCOMING_BIRTHDAY_NOTIFY_CURRENT_USER_IN_ADVANCE == 21
CooldownDays == 30

\* get_next_birthday: midnight of the birthday in the current year, a year
\* of 365 days later when that moment has passed.
get_next_birthday(date) ==
    LET year == now \div (DaysPerYear * MinutesPerDay)
        next_birthday == (year * DaysPerYear + date) * MinutesPerDay
    IN  IF next_birthday < now
        THEN next_birthday + DaysPerYear * MinutesPerDay
        ELSE next_birthday

users_with_upcoming_birthday ==
    {u \in user :
        /\ birth_date[u] # NoDate
        /\ get_next_birthday(birth_date[u]) - now
              < UPCOMING_BIRTHDAY_NOTIFY_CURRENT_USER_IN_ADVANCE * MinutesPerDay}

\* A row of push_sending_log.
PushSendingLog(sent_at, reason, reason_user_id, target_user_id) ==
    [sent_at |-> sent_at, reason |-> reason,
     reason_user_id |-> reason_user_id, target_user_id |-> target_user_id]

\* The cooldown test of the own-birthday scan: a row for the user that is
\* younger than 30 days.
recently_logged(u) ==
    \E row \in BagToSet(push_sending_log) :
       /\ row.reason = "CURRENT_USER_BIRTHDAY"
       /\ row.reason_user_id = u
       /\ row.sent_at > now - CooldownDays * MinutesPerDay

\* send_upcoming_birthday_of_current_user_notification: for every user that
\* passes the tests, send_push and then the log row; the first call that
\* raises ends the script.
send_upcoming_birthday_of_current_user_notification ==
    LET to_push == {u \in users_with_upcoming_birthday :
                       /\ firebase_push_token[u] # NoToken
                       /\ ~recently_logged(u)}
        calls == {[keywords |-> {"push_tokens", "title", "body"},
                   messages |-> {Message(firebase_push_token[u],
                                         "CURRENT_USER_BIRTHDAY", u)}] :
                     u \in to_push}
    IN
    /\ send_push("send_upcoming_birthday_of_current_user_notification", calls)
    /\ push_sending_log' =
          IF \A c \in calls : c.keywords \subseteq send_push_parameters
          THEN push_sending_log (+)
               SetToBag({PushSendingLog(now, "CURRENT_USER_BIRTHDAY", u, u) :
                            u \in to_push})
          ELSE push_sending_log
    /\ UNCHANGED <<user, wish, next_wish_id, user_following,
                   firebase_push_token, created_at, now, birth_date,
                   pre_bday_push_for_followers_last_sent_at>>

\* PUT /users/me
update_profile(current_user, date, name) ==
    /\ current_user \in user
    /\ birth_date' = [birth_date EXCEPT ![current_user] = date]
    /\ display_name' = [display_name EXCEPT ![current_user] = name]
    /\ last' = Ok("update_profile")
    /\ UNCHANGED <<user, wish, next_wish_id, user_following,
                   firebase_push_token, created_at, now, pushes,
                   push_sending_log, search,
                   pre_bday_push_for_followers_last_sent_at>>

\* The mapped columns of class User.
user_columns ==
    {"id", "display_name", "email", "phone", "birth_date", "gender",
     "photo_url", "photo_path", "vk_id", "vk_access_token", "vk_friends_data",
     "firebase_uid", "firebase_push_token", "firebase_push_token_saved_at",
     "registered_at"}

\* timedelta(days=200) in get_no_repeat_push_condition, whose parameter is
\* not used.
FollowersCooldownDays == 200

\* get_upcoming_birthday_users_condition_q: the users whose birthday of this
\* year or of the next falls between today + min_days and today + max_days.
get_upcoming_birthday_users_condition_q(min_days, max_days) ==
    LET today == now \div MinutesPerDay
        lower_limit == today + min_days
        upper_limit == today + max_days
        current_year == today \div DaysPerYear
    IN  {u \in user :
            /\ birth_date[u] # NoDate
            /\ \/ current_year * DaysPerYear + birth_date[u]
                     \in lower_limit..upper_limit
               \/ (current_year + 1) * DaysPerYear + birth_date[u]
                     \in lower_limit..upper_limit}

\* get_no_repeat_push_condition
get_no_repeat_push_condition ==
    {u \in user :
        \/ pre_bday_push_for_followers_last_sent_at[u] = NoStamp
        \/ pre_bday_push_for_followers_last_sent_at[u]
              < now - FollowersCooldownDays * MinutesPerDay}

\* The users the followers-birthday scan is to announce.
users_to_announce ==
    get_upcoming_birthday_users_condition_q(7, 21)
       \cap get_no_repeat_push_condition

\* send_upcoming_birthday_of_followed_user_notification: building the query
\* reads User.pre_bday_push_for_followers_last_sent_at, which raises
\* AttributeError for a class without that column: nothing is read, written
\* or sent. With the column, each user found is stamped and committed and
\* then announced to the followers that hold a token, one send_push call
\* for each; the first call that raises ends the script with the users
\* after it neither stamped nor announced.
send_upcoming_birthday_of_followed_user_notification ==
    LET script == "send_upcoming_birthday_of_followed_user_notification"
        keywords == {"push_tokens", "title", "body", "link"}
        followers_with_token(u) ==
            {f \in followed_by(u) : firebase_push_token[f] # NoToken}
        calls(users) ==
            UNION {{[keywords |-> keywords,
                     messages |-> {Message(firebase_push_token[f],
                                           "FOLLOWER_BIRTHDAY", u)}] :
                       f \in followers_with_token(u)} : u \in users}
        announced == {u \in users_to_announce : followers_with_token(u) # {}}
        stamp(users) ==
            [u \in Users |->
                IF u \in users THEN now
                ELSE pre_bday_push_for_followers_last_sent_at[u]]
    IN
    /\ IF "pre_bday_push_for_followers_last_sent_at" \notin user_columns
       THEN /\ last' = Traceback(script, "AttributeError")
            /\ UNCHANGED <<pushes, pre_bday_push_for_followers_last_sent_at>>
       ELSE IF announced = {} \/ keywords \subseteq send_push_parameters
       THEN /\ pre_bday_push_for_followers_last_sent_at' =
                  stamp(users_to_announce)
            /\ send_push(script, calls(announced))
       ELSE /\ \E raising \in announced,
                 before \in SUBSET (users_to_announce \ announced) :
                  pre_bday_push_for_followers_last_sent_at' =
                     stamp(before \cup {raising})
            /\ last' = Traceback(script, "TypeError")
            /\ UNCHANGED pushes
    /\ UNCHANGED <<user, wish, next_wish_id, user_following,
                   firebase_push_token, created_at, now, birth_date,
                   push_sending_log>>

\* ------------------------------------------------------- the specification
\* Every user is registered, nothing else has been created yet.
Init ==
    /\ user = Users
    /\ wish = [w \in {} |-> NewWish(1, "bike")]
    /\ next_wish_id = 1
    /\ user_following = {}
    /\ last = NoRequest
    /\ display_name = [u \in Users |-> Ann]
    /\ search = NoSearch
    /\ identity = [u \in Users |->
                      [email |-> NoEmail, vk_id |-> NoVkId, firebase_uid |-> u]]
    /\ firebase_push_token = [u \in Users |-> NoToken]
    /\ created_at = [w \in {} |-> 0]
    /\ now = 0
    /\ pushes = EmptyBag
    /\ birth_date = [u \in Users |-> NoDate]
    /\ push_sending_log = EmptyBag
    /\ pre_bday_push_for_followers_last_sent_at = [u \in Users |-> NoStamp]
    /\ runs = 0
    /\ session = [u \in Users |-> NoSession]
    /\ background_tasks = {}
    /\ birthday = NoCall

\* Reservation and visibility: the requests that decide who may see and
\* reserve a wish.
Next ==
    /\ UNCHANGED <<search_vars, identity, notify_vars, runs, session,
                   background_tasks, birthday>>
    /\ \/ \E u \in Users, n \in Names : add_wish(u, n)
       \/ \E u \in Users, w \in WishIds, n \in Names : update_wish(u, w, n)
       \/ \E u \in Users, w \in WishIds : delete_wish(u, w)
       \/ \E u \in Users, w \in WishIds : archive_wish(u, w)
       \/ \E u \in Users, w \in WishIds : unarchive_wish(u, w)
       \/ \E u \in Users, w \in WishIds : reserve_wish(u, w)
       \/ \E u \in Users, w \in WishIds : cancel_wish_reservation(u, w)
       \/ \E u \in Users, ok \in BOOLEAN : delete_own_account(u, ok)

Spec == Init /\ [][Next]_vars

\* The user with the least id other than u.
LeastOther(u) == CHOOSE r \in Users \ {u} : \A x \in Users \ {u} : r <= x

\* The endpoints of routers/wishes.py that create, edit, archive and delete
\* a wish, with reserve_wish so that the wishes edited may be reserved, over
\* a fixed set of accounts.
NextEdit ==
    /\ UNCHANGED <<search_vars, identity, notify_vars, runs, session,
                   background_tasks, birthday>>
    /\ \/ \E u \in Users, n \in Names : add_wish(u, n)
       \/ \E u \in Users, w \in WishIds, n \in Names : update_wish(u, w, n)
       \/ \E u \in Users, w \in WishIds : delete_wish(u, w)
       \/ \E u \in Users, w \in WishIds : upload_wish_image(u, w)
       \/ \E u \in Users, w \in WishIds : delete_wish_image(u, w)
       \/ \E u \in Users, w \in WishIds : archive_wish(u, w)
       \/ \E u \in Users, w \in WishIds : unarchive_wish(u, w)
       \/ \E w \in DOMAIN wish : reserve_wish(LeastOther(wish[w].user_id), w)

SpecEdit == Init /\ [][NextEdit]_vars

\* The social graph: the requests that touch user_following.
NextFollow ==
    /\ UNCHANGED <<search_vars, identity, notify_vars, runs, session,
                   background_tasks, birthday>>
    /\ \/ \E u \in Users, v \in Users : follow_user(u, v)
       \/ \E u \in Users, v \in Users : unfollow_user(u, v)
       \/ \E u \in Users, ok \in BOOLEAN : delete_own_account(u, ok)

SpecFollow == Init /\ [][NextFollow]_vars

\* Account deletion: the requests that fill the tables (a wish created,
\* archived by its owner, reserved by another user; up to MaxFollows follow
\* edges) and the deletion of an account.
NextAccount ==
    /\ UNCHANGED <<search_vars, identity, notify_vars, runs, session,
                   background_tasks, birthday>>
    /\ \/ \E u \in Users : add_wish(u, "bike")
       \/ \E w \in DOMAIN wish : archive_wish(wish[w].user_id, w)
       \/ \E u \in Users, w \in DOMAIN wish :
             u # wish[w].user_id /\ reserve_wish(u, w)
       \/ \E u \in Users, v \in Users :
             /\ u # v
             /\ Cardinality(user_following) < MaxFollows
             /\ follow_user(u, v)
       \/ \E u \in Users, ok \in BOOLEAN : delete_own_account(u, ok)

SpecAccount == Init /\ [][NextAccount]_vars

\* Queries a client can send as q.
Queries ==
    {<<>>, <<" ">>, <<" ", " ">>, <<"a", "N">>, <<" ", "B", " ">>, <<"x">>}

\* A user table of up to MaxAccounts rows, some named Ann and the others Bob.
InitSearch ==
    /\ \E n \in 0..MaxAccounts, k \in 0..MaxAccounts :
          /\ k <= n
          /\ user = 1..n
          /\ display_name = [u \in 1..n |-> IF u <= k THEN Ann ELSE Bob]
    /\ wish = [w \in {} |-> NewWish(1, "bike")]
    /\ next_wish_id = 1
    /\ user_following = {}
    /\ last = NoRequest
    /\ search = NoSearch
    /\ identity = [u \in user |->
                      [email |-> NoEmail, vk_id |-> NoVkId, firebase_uid |-> u]]
    /\ firebase_push_token = [u \in Users |-> NoToken]
    /\ created_at = [w \in {} |-> 0]
    /\ now = 0
    /\ pushes = EmptyBag
    /\ birth_date = [u \in Users |-> NoDate]
    /\ push_sending_log = EmptyBag
    /\ pre_bday_push_for_followers_last_sent_at = [u \in Users |-> NoStamp]
    /\ runs = 0
    /\ session = [u \in Users |-> NoSession]
    /\ background_tasks = {}
    /\ birthday = NoCall

\* One search on each table: search_users writes nothing, so a second search
\* would start from the table the first one started from.
NextSearch ==
    /\ UNCHANGED <<identity, notify_vars, runs, session, background_tasks,
                   birthday>>
    /\ last = NoRequest
    /\ \E u \in 1..MaxAccounts, q \in Queries : search_users(q, u)

SpecSearch == InitSearch /\ [][NextSearch]_vars

\* Registration and login, starting from an empty user table. A Firebase
\* account whose e-mail is verified has an e-mail.
InitAuth ==
    /\ user = {}
    /\ identity = [u \in {} |-> [email |-> NoEmail, vk_id |-> NoVkId,
                                  firebase_uid |-> u]]
    /\ wish = [w \in {} |-> NewWish(1, "bike")]
    /\ next_wish_id = 1
    /\ user_following = {}
    /\ last = NoRequest
    /\ display_name = [u \in Users |-> Ann]
    /\ search = NoSearch
    /\ firebase_push_token = [u \in Users |-> NoToken]
    /\ created_at = [w \in {} |-> 0]
    /\ now = 0
    /\ pushes = EmptyBag
    /\ birth_date = [u \in Users |-> NoDate]
    /\ push_sending_log = EmptyBag
    /\ pre_bday_push_for_followers_last_sent_at = [u \in Users |-> NoStamp]
    /\ runs = 0
    /\ session = [u \in Users |-> NoSession]
    /\ background_tasks = {}
    /\ birthday = NoCall

NextAuth ==
    /\ UNCHANGED <<search_vars, notify_vars, runs, session, background_tasks,
                   birthday>>
    /\ \/ \E v \in VkIds, e \in Emails \cup {NoEmail}, x \in BOOLEAN :
             auth_vk_web(v, e, x)
       \/ \E v \in VkIds, e \in Emails \cup {NoEmail}, x \in BOOLEAN :
             auth_vk_mobile(v, e, x)
       \/ \E t \in BOOLEAN, uid \in FirebaseUids,
             e \in Emails \cup {NoEmail}, verified \in BOOLEAN :
             (verified => e # NoEmail) /\ auth_firebase(t, uid, e, verified)

SpecAuth == InitAuth /\ [][NextAuth]_vars

\* The hourly cron script's two scans among the requests that feed them.
MaxTicks == 2

NextScan ==
    /\ UNCHANGED <<search_vars, identity, runs, session, background_tasks,
                   birthday>>
    /\ \/ \E u \in Users, t \in Tokens : save_push_token(u, t)
       \/ \E u \in Users : add_wish_now(u, "bike")
       \/ \E u \in Users, w \in DOMAIN wish :
             /\ u # wish[w].user_id
             /\ reserve_wish(u, w)
             /\ UNCHANGED notify_vars
       \/ \E w \in DOMAIN wish :
             /\ wish[w].reserved_by_id # NoUser
             /\ cancel_wish_reservation(wish[w].reserved_by_id, w)
             /\ UNCHANGED notify_vars
       \/ \E u \in Users, v \in Users :
             /\ u # v
             /\ Cardinality(user_following) < MaxFollows
             /\ follow_user(u, v)
             /\ UNCHANGED notify_vars
       \/ now < MaxTicks * CreationDelay /\ Tick(CreationDelay)
       \/ send_reservation_notifincations
       \/ send_wish_creation_notifications

SpecScan == Init /\ [][NextScan]_vars

\* The reservation scan alone among the requests that feed it; cron starts
\* the script every hour, so the scan is taken again and again.
NextReservation ==
    /\ UNCHANGED <<search_vars, identity, runs, session, background_tasks,
                   birthday>>
    /\ \/ \E u \in Users, t \in Tokens : save_push_token(u, t)
       \/ \E u \in Users : add_wish_now(u, "bike")
       \/ \E u \in Users, w \in DOMAIN wish :
             /\ u # wish[w].user_id
             /\ reserve_wish(u, w)
             /\ UNCHANGED notify_vars
       \/ \E w \in DOMAIN wish :
             /\ wish[w].reserved_by_id # NoUser
             /\ cancel_wish_reservation(wish[w].reserved_by_id, w)
             /\ UNCHANGED notify_vars
       \/ send_reservation_notifincations

SpecReservation ==
    /\ Init
    /\ [][NextReservation]_vars
    /\ WF_vars(/\ UNCHANGED <<search_vars, identity, runs, session, background_tasks,
                   birthday>>
               /\ send_reservation_notifincations)

\* The number of reservation messages handed over for a token.
reservation_pushes(token) ==
    CopiesIn(Message(token, "reservation", NoUser), pushes)

\* The four scans as functions of the tables: each is run on a table drawn
\* from the rows that feed it, where its first run has something to select,
\* and then run again, with nothing in between.
MaxRuns == 2

\* Every table of at most n wishes with rows from the set given.
WishTables(n, rows) == UNION {[1..k -> rows] : k \in 0..n}

ReservationRows ==
    {[NewWish(o, "bike") EXCEPT
         !.reserved_by_id = IF reserved THEN LeastOther(o) ELSE NoUser,
         !.is_reservation_notification_sent = flag,
         !.is_creation_notification_sent = TRUE] :
       o \in Users, reserved \in BOOLEAN, flag \in BOOLEAN}

CreationRows ==
    {[NewWish(o, "bike") EXCEPT !.is_creation_notification_sent = flag] :
       o \in Users, flag \in BOOLEAN}

\* Noon of day 100, with birthdays 10 and 100 days ahead.
Noon == 100 * MinutesPerDay + 720
BirthDates == {NoDate, 110, 200}

InitRerun ==
    /\ user = Users
    /\ last = NoRequest
    /\ display_name = [u \in Users |-> Ann]
    /\ search = NoSearch
    /\ identity = [u \in Users |->
                      [email |-> NoEmail, vk_id |-> NoVkId, firebase_uid |-> u]]
    /\ pushes = EmptyBag
    /\ runs = 0
    /\ session = [u \in Users |-> NoSession]
    /\ background_tasks = {}
    /\ birthday = NoCall
    /\ \/ /\ wish \in WishTables(MaxWishes + 1, ReservationRows)
          /\ created_at = [w \in DOMAIN wish |-> 0]
          /\ now = 2 * CreationDelay
          /\ firebase_push_token \in [Users -> {NoToken} \cup Tokens]
          /\ user_following = {}
          /\ birth_date = [u \in Users |-> NoDate]
          /\ push_sending_log = EmptyBag
          /\ pre_bday_push_for_followers_last_sent_at = [u \in Users |-> NoStamp]
       \/ /\ wish \in WishTables(MaxWishes, CreationRows)
          /\ created_at \in [DOMAIN wish -> {0, CreationDelay}]
          /\ now = 2 * CreationDelay
          /\ firebase_push_token \in
                {[u \in Users |-> t] : t \in {NoToken, "tokenA"}}
          /\ user_following \in
                {e \in SUBSET {f \in Users \X Users : f[1] # f[2]} :
                    Cardinality(e) <= MaxFollows}
          /\ birth_date = [u \in Users |-> NoDate]
          /\ push_sending_log = EmptyBag
          /\ pre_bday_push_for_followers_last_sent_at = [u \in Users |-> NoStamp]
       \/ /\ wish = [w \in {} |-> NewWish(1, "bike")]
          /\ created_at = [w \in {} |-> 0]
          /\ now = Noon
          /\ firebase_push_token \in [Users -> {NoToken, "tokenA"}]
          /\ user_following = {}
          /\ birth_date \in [Users -> BirthDates]
          /\ \E logged \in SUBSET Users :
                push_sending_log =
                   SetToBag({PushSendingLog(now - 10 * MinutesPerDay,
                                            "CURRENT_USER_BIRTHDAY", u, u) :
                                u \in logged})
          /\ pre_bday_push_for_followers_last_sent_at = [u \in Users |-> NoStamp]
    /\ next_wish_id = Cardinality(DOMAIN wish) + 1

Scans ==
    {"send_reservation_notifincations", "send_wish_creation_notifications",
     "send_upcoming_birthday_of_current_user_notification",
     "send_upcoming_birthday_of_followed_user_notification"}

NextRerun ==
    /\ UNCHANGED <<search_vars, identity>>
    /\ runs < MaxRuns
    /\ runs' = runs + 1
    /\ UNCHANGED <<session, background_tasks,
                   birthday>>
    /\ \/ /\ runs = 0 => users_with_reserved_wishes # {}
          /\ send_reservation_notifincations
       \/ /\ runs = 0 => wishes_filter_cond # {}
          /\ send_wish_creation_notifications
       \/ /\ runs = 0 => users_with_upcoming_birthday # {}
          /\ send_upcoming_birthday_of_current_user_notification
       \/ /\ runs = 0 => \E u \in user : birth_date[u] # NoDate
          /\ send_upcoming_birthday_of_followed_user_notification
    /\ runs > 0 => last'.op = last.op

SpecRerun == InitRerun /\ [][NextRerun]_vars

\* The own-birthday scan of the noon cron script over two months, among the
\* requests that feed it. Birthdays fall on day 15 and on day 45.
MaxDays == 60

NextBirthday ==
    /\ UNCHANGED <<identity, runs, session, background_tasks,
                   birthday>>
    /\ \/ /\ \E u \in Users : save_push_token(u, "tokenA")
          /\ UNCHANGED search_vars
       \/ \E u \in Users, date \in {15, 45} : update_profile(u, date, Ann)
       \/ /\ \E days \in {10, 30} :
                /\ now + days * MinutesPerDay <= MaxDays * MinutesPerDay
                /\ Tick(days * MinutesPerDay)
          /\ UNCHANGED search_vars
       \/ /\ send_upcoming_birthday_of_current_user_notification
          /\ UNCHANGED search_vars

SpecBirthday == Init /\ [][NextBirthday]_vars

\* The own-birthday messages handed over for a user, and the rows logged.
own_birthday_pushes(u) ==
    {m \in BagToSet(pushes) :
        m.reason = "CURRENT_USER_BIRTHDAY" /\ m.reason_user = u}

own_birthday_rows(u) ==
    {row \in BagToSet(push_sending_log) :
        row.reason = "CURRENT_USER_BIRTHDAY" /\ row.reason_user_id = u}

\* The followers-birthday scan alone among the requests that feed it: tokens,
\* birth dates (day 15 of the year), follow edges and the passing of days.
NextFollowersBirthday ==
    /\ UNCHANGED <<identity, runs, session, background_tasks,
                   birthday>>
    /\ \/ /\ \E u \in Users : save_push_token(u, "tokenA")
          /\ UNCHANGED search_vars
       \/ \E u \in Users : update_profile(u, 15, Ann)
       \/ /\ \E u \in Users, v \in Users :
                /\ u # v
                /\ Cardinality(user_following) < MaxFollows
                /\ follow_user(u, v)
          /\ UNCHANGED <<search_vars, notify_vars>>
       \/ /\ now + 10 * MinutesPerDay <= MaxDays * MinutesPerDay
          /\ Tick(10 * MinutesPerDay)
          /\ UNCHANGED search_vars
       \/ /\ send_upcoming_birthday_of_followed_user_notification
          /\ UNCHANGED search_vars

SpecFollowersBirthday == Init /\ [][NextFollowersBirthday]_vars

\* The followers-birthday messages handed over about a user.
followers_birthday_pushes(u) ==
    {m \in BagToSet(pushes) :
        m.reason = "FOLLOWER_BIRTHDAY" /\ m.reason_user = u}

\* ------------------------------------------- reserve_wish, step by step
\* A request runs in a thread of its own with a session of its own
\* (dependencies.get_db). The engine is SQLite in WAL mode with a plain BEGIN
\* (db.py): the first SELECT of a session fixes the snapshot it reads from,
\* and an UPDATE by a session whose snapshot is older than the last commit,
\* or issued while another session holds the write lock, fails with
\* OperationalError "database is locked". No handler catches it, the
\* session is closed without a commit, and the client gets 500.

\* The request is answered and its session closed.
Answer(current_user, status, detail) ==
    /\ session' = [session EXCEPT
                     ![current_user] = [NoSession EXCEPT !.status = status]]
    /\ last' = Response("reserve_wish", status, detail)

\* wish = db.scalars(Wish.get_active_wish_query().where(...)).one_or_none()
reserve_wish_select(current_user, wish_id) ==
    /\ current_user \in user
    /\ session[current_user] = NoSession
    /\ session' = [session EXCEPT ![current_user] =
                     [pc |-> "selected", wish_id |-> wish_id,
                      rows |-> {wish[w] : w \in get_active_wish_query
                                                  \cap {wish_id}},
                      stale |-> FALSE, status |-> 0]]
    /\ UNCHANGED <<user, wish, next_wish_id, user_following, last>>

\* The three tests on the row read.
reserve_wish_guard(current_user) ==
    LET s == session[current_user]
    IN
    /\ s.pc = "selected"
    /\ IF s.rows = {}
       THEN Answer(current_user, HTTP_404_NOT_FOUND, "Wish not found")
       ELSE IF \E row \in s.rows : row.user_id = current_user
       THEN Answer(current_user, HTTP_403_FORBIDDEN, "Cannot reserve own wish")
       ELSE IF \E row \in s.rows : /\ row.reserved_by_id # NoUser
                                    /\ row.reserved_by_id # current_user
       THEN Answer(current_user, HTTP_403_FORBIDDEN,
                   "Reserved by someone else")
       ELSE /\ session' = [session EXCEPT ![current_user].pc = "guarded"]
            /\ UNCHANGED last
    /\ UNCHANGED <<user, wish, next_wish_id, user_following>>

\* The flush of db.commit() without the test of the snapshot.
reserve_wish_flush_stale_snapshot(current_user) ==
    LET s == session[current_user]
    IN
    /\ s.pc = "guarded"
    /\ session' = [session EXCEPT ![current_user].pc = "flushed"]
    /\ UNCHANGED <<user, wish, next_wish_id, user_following, last>>

\* wish.reserved_by = current_user; db.add(wish); db.commit(): the flush
\* sends UPDATE wish SET reserved_by_id = ... WHERE id = ... and takes the
\* write lock, or fails.
reserve_wish_flush(current_user) ==
    LET s == session[current_user]
    IN
    /\ s.pc = "guarded"
    /\ IF s.stale \/ \E other \in Users : session[other].pc = "flushed"
       THEN Answer(current_user, HTTP_500_INTERNAL_SERVER_ERROR,
                   "Internal Server Error")
       ELSE /\ session' = [session EXCEPT ![current_user].pc = "flushed"]
            /\ UNCHANGED last
    /\ UNCHANGED <<user, wish, next_wish_id, user_following>>

\* COMMIT: the row is written, the snapshot of every session still reading
\* is now older than the database, and the request is answered 200.
reserve_wish_commit(current_user) ==
    LET s == session[current_user]
    IN
    /\ s.pc = "flushed"
    /\ wish' = [wish EXCEPT ![s.wish_id].reserved_by_id = current_user]
    /\ session' =
          [u \in Users |->
              IF u = current_user
              THEN [NoSession EXCEPT !.status = HTTP_200_OK]
              ELSE IF session[u].pc \in {"selected", "guarded"}
              THEN [session[u] EXCEPT !.stale = TRUE]
              ELSE session[u]]
    /\ last' = Ok("reserve_wish")
    /\ UNCHANGED <<user, next_wish_id, user_following>>

\* The wishes the requests race for: active, and unreserved or reserved.
RaceRows ==
    {[NewWish(o, "bike") EXCEPT
         !.reserved_by_id = IF reserved THEN LeastOther(o) ELSE NoUser] :
       o \in Users, reserved \in BOOLEAN}

InitRace ==
    /\ user = Users
    /\ wish \in WishTables(MaxWishes, RaceRows)
    /\ next_wish_id = Len(wish) + 1
    /\ user_following = {}
    /\ last = NoRequest
    /\ display_name = [u \in Users |-> Ann]
    /\ search = NoSearch
    /\ identity = [u \in Users |->
                      [email |-> NoEmail, vk_id |-> NoVkId, firebase_uid |-> u]]
    /\ firebase_push_token = [u \in Users |-> NoToken]
    /\ created_at = [w \in DOMAIN wish |-> 0]
    /\ now = 0
    /\ pushes = EmptyBag
    /\ birth_date = [u \in Users |-> NoDate]
    /\ push_sending_log = EmptyBag
    /\ pre_bday_push_for_followers_last_sent_at = [u \in Users |-> NoStamp]
    /\ runs = 0
    /\ session = [u \in Users |-> NoSession]
    /\ background_tasks = {}
    /\ birthday = NoCall

\* Requests to reserve, one for each user, their steps in any order.
NextRace ==
    /\ UNCHANGED <<search_vars, identity, notify_vars, runs, background_tasks,
                   birthday>>
    /\ \/ \E u \in Users, w \in DOMAIN wish : reserve_wish_select(u, w)
       \/ \E u \in Users : reserve_wish_guard(u)
       \/ \E u \in Users : reserve_wish_flush(u)
       \/ \E u \in Users : reserve_wish_commit(u)

SpecRace == InitRace /\ [][NextRace]_vars

\* ------------------------------------ follow_user and its background task
\* The most pushes and pending tasks the follow requests may add up to.
MaxTasks == 1

\* POST /follow/{follow_user_id} with a task added on every answer 200.
follow_user_add_task_always(current_user, follow_user_id) ==
    /\ follow_user(current_user, follow_user_id)
    /\ background_tasks' =
          IF last'.status = HTTP_200_OK
          THEN background_tasks
                  \cup {[target |-> follow_user_id, follower |-> current_user]}
          ELSE background_tasks

\* POST /follow/{follow_user_id}: background_tasks.add_task is reached when
\* the edge was absent and its INSERT has been committed, not after the
\* early return and not after an exception.
follow_user_add_task(current_user, follow_user_id) ==
    /\ follow_user(current_user, follow_user_id)
    /\ background_tasks' =
          IF user_following' # user_following
          THEN background_tasks
                  \cup {[target |-> follow_user_id, follower |-> current_user]}
          ELSE background_tasks

\* send_push_about_new_follower, run after the response has been sent: no
\* call without a token; the call to Firebase may raise, and nothing catches
\* that.
send_push_about_new_follower(task, raises) ==
    LET script == "send_push_about_new_follower"
        keywords == {"target_users", "title", "body", "link"}
        token == firebase_push_token[task.target]
    IN
    /\ task \in background_tasks
    /\ background_tasks' = background_tasks \ {task}
    /\ IF token = NoToken
       THEN /\ last' = Exit(script)
            /\ UNCHANGED pushes
       ELSE IF raises \/ ~(keywords \subseteq send_push_parameters)
       THEN /\ last' = Traceback(script, "Exception")
            /\ UNCHANGED pushes
       ELSE /\ last' = Exit(script)
            /\ pushes' = pushes (+) SetToBag({Message(token, "new_follower",
                                                       task.follower)})
    /\ UNCHANGED <<user, wish, next_wish_id, user_following,
                   firebase_push_token, created_at, now, birth_date,
                   push_sending_log,
                   pre_bday_push_for_followers_last_sent_at>>

NextFollowNotify ==
    /\ UNCHANGED <<search_vars, identity, runs, session, birthday>>
    /\ \/ /\ \E u \in Users : save_push_token(u, "tokenA")
          /\ UNCHANGED background_tasks
       \/ /\ \E u \in Users, v \in Users :
                /\ [target |-> v, follower |-> u] \notin background_tasks
                /\ \/ <<u, v>> \in user_following
                   \/ Cardinality(user_following) < MaxFollows
                /\ BagCardinality(pushes) + Cardinality(background_tasks)
                      < MaxTasks
                /\ follow_user_add_task(u, v)
          /\ UNCHANGED notify_vars
       \/ /\ \E u \in Users, v \in Users : unfollow_user(u, v)
          /\ UNCHANGED <<notify_vars, background_tasks>>
       \/ \E task \in background_tasks, raises \in BOOLEAN :
             send_push_about_new_follower(task, raises)

SpecFollowNotify == Init /\ [][NextFollowNotify]_vars

\* ------------------------------------- get_next_birthday on the calendar
\* The years the calls are made in: NumYears years from FirstYear, the
\* second of them a leap year.
FirstYear == 2023
NumYears == 2

IsLeap(year) ==
    year % 4 = 0 /\ (year % 100 # 0 \/ year % 400 = 0)

DaysInMonth(year, month) ==
    IF month = 2 THEN (IF IsLeap(year) THEN 29 ELSE 28)
    ELSE IF month \in {4, 6, 9, 11} THEN 30
    ELSE 31

DaysInYear(year) == IF IsLeap(year) THEN 366 ELSE 365

RECURSIVE DaysBeforeYear(_)
DaysBeforeYear(year) ==
    IF year <= FirstYear THEN 0
    ELSE DaysBeforeYear(year - 1) + DaysInYear(year - 1)

RECURSIVE DaysBeforeMonth(_, _)
DaysBeforeMonth(year, month) ==
    IF month <= 1 THEN 0
    ELSE DaysBeforeMonth(year, month - 1) + DaysInMonth(year, month - 1)

\* The day a date of a year falls on, counted from 1 January of FirstYear.
Ordinal(year, date) ==
    DaysBeforeYear(year) + DaysBeforeMonth(year, date[1]) + date[2] - 1

\* The <<month, day>> of a day counted that way.
DateOf(ordinal) ==
    CHOOSE date \in (1..12) \X (1..31) :
       \E year \in FirstYear..(FirstYear + NumYears + 1) :
          /\ date[2] <= DaysInMonth(year, date[1])
          /\ Ordinal(year, date) = ordinal

\* get_next_birthday: datetime(year=now.year, month=..., day=...) raises
\* ValueError for a day the month does not have in that year; a birthday
\* already past is moved on by timedelta(days=365).
get_next_birthday_datetime(date, today) ==
    LET next_birthday == Ordinal(today.year, date)
        current == Ordinal(today.year, today.date)
    IN  IF date[2] > DaysInMonth(today.year, date[1])
        THEN [raised |-> TRUE, day |-> -1]
        ELSE IF next_birthday < current
                \/ (next_birthday = current /\ 0 < today.minute)
        THEN [raised |-> FALSE, day |-> next_birthday + 365]
        ELSE [raised |-> FALSE, day |-> next_birthday]

\* The dates tried: mid-January, the turn of February, the end of the year.
CalendarDates == {<<1, 15>>, <<2, 28>>, <<2, 29>>, <<3, 1>>, <<12, 31>>}

InitCalendar ==
    /\ user = Users
    /\ wish = [w \in {} |-> NewWish(1, "bike")]
    /\ next_wish_id = 1
    /\ user_following = {}
    /\ last = NoRequest
    /\ display_name = [u \in Users |-> Ann]
    /\ search = NoSearch
    /\ identity = [u \in Users |->
                      [email |-> NoEmail, vk_id |-> NoVkId, firebase_uid |-> u]]
    /\ firebase_push_token = [u \in Users |-> NoToken]
    /\ created_at = [w \in {} |-> 0]
    /\ now = 0
    /\ pushes = EmptyBag
    /\ birth_date = [u \in Users |-> NoDate]
    /\ push_sending_log = EmptyBag
    /\ pre_bday_push_for_followers_last_sent_at = [u \in Users |-> NoStamp]
    /\ runs = 0
    /\ session = [u \in Users |-> NoSession]
    /\ background_tasks = {}
    /\ \E birth_day \in CalendarDates, today \in CalendarDates,
          year \in FirstYear..(FirstYear + NumYears - 1),
          minute \in {0, 720} :
          /\ today[2] <= DaysInMonth(year, today[1])
          /\ birthday = [birth_date |-> birth_day,
                         now |-> [year |-> year, date |-> today,
                                  minute |-> minute],
                         next_birthday |-> NoResult]

\* next_birthday = get_next_birthday(user.birth_date)
call_get_next_birthday ==
    /\ birthday.next_birthday = NoResult
    /\ birthday' = [birthday EXCEPT !.next_birthday =
                       get_next_birthday_datetime(birthday.birth_date,
                                                  birthday.now)]
    /\ last' = IF birthday'.next_birthday.raised
               THEN Traceback("get_next_birthday", "ValueError")
               ELSE Exit("get_next_birthday")

NextCalendar ==
    /\ UNCHANGED <<user, wish, next_wish_id, user_following, search_vars,
                   identity, notify_vars, runs, session, background_tasks>>
    /\ call_get_next_birthday

SpecCalendar == InitCalendar /\ [][NextCalendar]_vars

\* ------------------------------------------- what the wish handlers keep
\* Wishes as the scans may have left them: either flag set or not.
FrameRows ==
    {[NewWish(o, "bike") EXCEPT
         !.is_reservation_notification_sent = reservation_sent,
         !.is_creation_notification_sent = creation_sent] :
       o \in Users, reservation_sent \in BOOLEAN, creation_sent \in BOOLEAN}

InitFrame ==
    /\ user = Users
    /\ wish \in WishTables(MaxWishes, FrameRows)
    /\ next_wish_id = Len(wish) + 1
    /\ user_following = {}
    /\ last = NoRequest
    /\ display_name = [u \in Users |-> Ann]
    /\ search = NoSearch
    /\ identity = [u \in Users |->
                      [email |-> NoEmail, vk_id |-> NoVkId, firebase_uid |-> u]]
    /\ firebase_push_token = [u \in Users |-> NoToken]
    /\ created_at = [w \in DOMAIN wish |-> 0]
    /\ now = 0
    /\ pushes = EmptyBag
    /\ birth_date = [u \in Users |-> NoDate]
    /\ push_sending_log = EmptyBag
    /\ pre_bday_push_for_followers_last_sent_at = [u \in Users |-> NoStamp]
    /\ runs = 0
    /\ session = [u \in Users |-> NoSession]
    /\ background_tasks = {}
    /\ birthday = NoCall

\* The owner's requests on a wish, and the requests that change reserved_by.
NextFrame ==
    /\ UNCHANGED <<search_vars, identity, notify_vars, runs, session,
                   background_tasks, birthday>>
    /\ \/ \E w \in DOMAIN wish, n \in Names :
             update_wish(wish[w].user_id, w, n)
       \/ \E w \in DOMAIN wish : upload_wish_image(wish[w].user_id, w)
       \/ \E w \in DOMAIN wish : delete_wish_image(wish[w].user_id, w)
       \/ \E w \in DOMAIN wish : archive_wish(wish[w].user_id, w)
       \/ \E w \in DOMAIN wish : unarchive_wish(wish[w].user_id, w)
       \/ \E w \in DOMAIN wish : reserve_wish(LeastOther(wish[w].user_id), w)
       \/ \E w \in DOMAIN wish :
             /\ wish[w].reserved_by_id # NoUser
             /\ cancel_wish_reservation(wish[w].reserved_by_id, w)
       \/ \E w \in DOMAIN wish :
             /\ wish[w].reserved_by_id # NoUser
             /\ delete_own_account(wish[w].reserved_by_id, TRUE)

SpecFrame == InitFrame /\ [][NextFrame]_vars

TypeOK ==
    /\ user \subseteq Users
    /\ DOMAIN wish \subseteq WishIds
    /\ next_wish_id \in 1..(MaxWishes + 1)
    /\ user_following \subseteq Users \X Users

\* ================================================================== claims
\* C1: in every state reachable by add_wish, reserve_wish,
\* cancel_wish_reservation, archive_wish, unarchive_wish, update_wish,
\* delete_wish and delete_own_account, no wish is reserved by its owner.
C1_OwnerNeverReserver ==
    \A w \in DOMAIN wish : wish[w].reserved_by_id # wish[w].user_id

\* A reservation has just been made, so a wish with a reserver exists.
C1_Witness ==
    /\ last = Ok("reserve_wish")
    /\ \E w \in DOMAIN wish : wish[w].reserved_by_id \in user

\* C2 as stated: reserve_wish by the owner of a wish, archived or not,
\* answers 403 and changes nothing.
C2_OwnerReserveAlwaysForbidden ==
    [][\A u \in Users, w \in DOMAIN wish :
          (reserve_wish(u, w) /\ wish[w].user_id = u)
          => (last'.status = HTTP_403_FORBIDDEN /\ wish' = wish)]_vars

\* C2 amended: reserve_wish by the owner of a wish never changes the wish
\* table; it answers 403 when the wish is not archived and 404 when it is.
C2_OwnerReserveRefused ==
    [][last'.op = "reserve_wish"
       => \A u \in Users, w \in DOMAIN wish :
             (wish[w].user_id = u /\ reserve_wish(u, w))
             => /\ wish' = wish
                /\ last'.status = IF wish[w].is_archived
                                  THEN HTTP_404_NOT_FOUND
                                  ELSE HTTP_403_FORBIDDEN]_vars

\* The owner has just been told that an own wish cannot be reserved.
C2_Witness ==
    /\ last = Response("reserve_wish", HTTP_403_FORBIDDEN,
                       "Cannot reserve own wish")
    /\ \E w \in get_active_wish_query : wish[w].user_id \in user

\* C3: while an active wish is reserved by a, reserve_wish by a succeeds and
\* keeps reserved_by = a, and reserve_wish by anyone else answers 403 and
\* keeps reserved_by = a.
C3_ReservationHeld ==
    [][last'.op = "reserve_wish"
       => \A u \in Users, w \in get_active_wish_query :
             (wish[w].reserved_by_id # NoUser /\ reserve_wish(u, w))
             => /\ wish' = wish
                /\ last'.status = IF u = wish[w].reserved_by_id
                                  THEN HTTP_200_OK
                                  ELSE HTTP_403_FORBIDDEN]_vars

\* A second user has just been refused a wish that somebody else holds.
C3_Witness ==
    /\ last = Response("reserve_wish", HTTP_403_FORBIDDEN,
                       "Reserved by someone else")
    /\ \E w \in get_active_wish_query : wish[w].reserved_by_id \in user

\* C4: cancel_wish_reservation by the user who holds the reservation, or by
\* any user on a wish that is not reserved, succeeds and leaves the wish
\* unreserved and otherwise as it was.
C4_CancelClears ==
    [][last'.op = "cancel_wish_reservation"
       => \A u \in Users, w \in DOMAIN wish :
             (wish[w].reserved_by_id \in {u, NoUser}
              /\ cancel_wish_reservation(u, w))
             => /\ last'.status = HTTP_200_OK
                /\ wish' = [wish EXCEPT ![w].reserved_by_id = NoUser]]_vars

\* A cancellation has just succeeded and the wish is free.
C4_Witness ==
    /\ last = Ok("cancel_wish_reservation")
    /\ \E w \in DOMAIN wish : wish[w].reserved_by_id = NoUser

\* C5: cancel_wish_reservation by a caller other than the user who holds the
\* reservation, the owner of the wish included, answers 403 and changes
\* nothing.
C5_CancelByOtherForbidden ==
    [][last'.op = "cancel_wish_reservation"
       => \A u \in Users, w \in DOMAIN wish :
             (wish[w].reserved_by_id \notin {u, NoUser}
              /\ cancel_wish_reservation(u, w))
             => (last'.status = HTTP_403_FORBIDDEN /\ wish' = wish)]_vars

\* Somebody has just been refused the cancellation of another user's
\* reservation.
C5_Witness ==
    /\ last = Response("cancel_wish_reservation", HTTP_403_FORBIDDEN,
                       "Reserved by someone else")
    /\ \E w \in DOMAIN wish : wish[w].reserved_by_id \in user

\* C6: reserve_wish by a non-owner on a wish that is archived or absent
\* answers 404 and changes nothing, and no request turns reserved_by of an
\* archived wish from unset to a user.
C6_ArchivedNotReservable ==
    [][/\ last'.op = "reserve_wish"
          => \A u \in Users, w \in WishIds :
                ((w \notin DOMAIN wish
                  \/ (wish[w].is_archived /\ wish[w].user_id # u))
                 /\ reserve_wish(u, w))
                => (last'.status = HTTP_404_NOT_FOUND /\ wish' = wish)
       /\ \A w \in DOMAIN wish \cap DOMAIN wish' :
             (wish[w].is_archived /\ wish[w].reserved_by_id = NoUser)
             => wish'[w].reserved_by_id = NoUser]_vars

\* A reservation of an archived, unreserved wish has just been refused.
C6_Witness ==
    /\ last = Response("reserve_wish", HTTP_404_NOT_FOUND, "Wish not found")
    /\ \E w \in DOMAIN wish :
          wish[w].is_archived /\ wish[w].reserved_by_id = NoUser

\* C7: get_wish answers 200 with the row exactly when the wish exists and is
\* not archived or is the caller's own; once the owner has archived a wish
\* every other user gets 404 and the owner gets the row with is_archived set,
\* and once the owner has unarchived it everybody gets it again.
C7_ArchivedHiddenFromOthers ==
    /\ [](\A w \in WishIds, c \in user :
             get_wish(w, c) =
                IF w \in DOMAIN wish
                   /\ (wish[w].is_archived => wish[w].user_id = c)
                THEN [status |-> HTTP_200_OK, rows |-> {wish[w]}]
                ELSE [status |-> HTTP_404_NOT_FOUND, rows |-> {}])
    /\ [][last'.op \in {"archive_wish", "unarchive_wish"}
          => \A u \in Users, w \in DOMAIN wish :
                /\ (last' = Ok("archive_wish") /\ archive_wish(u, w))
                   => \A c \in user :
                         IF c = u
                         THEN get_wish(w, c)' =
                                 [status |-> HTTP_200_OK,
                                  rows |-> {[wish[w] EXCEPT
                                                !.is_archived = TRUE]}]
                         ELSE get_wish(w, c)'.status = HTTP_404_NOT_FOUND
                /\ (last' = Ok("unarchive_wish") /\ unarchive_wish(u, w))
                   => \A c \in user :
                         get_wish(w, c)'.status = HTTP_200_OK]_vars

\* The owner has just archived a wish: the owner still gets it, another user
\* does not.
C7_Witness ==
    /\ last = Ok("archive_wish")
    /\ \E w \in DOMAIN wish, c \in user :
          /\ wish[w].is_archived
          /\ wish[w].user_id \in user
          /\ get_wish(w, wish[w].user_id).status = HTTP_200_OK
          /\ get_wish(w, c).status = HTTP_404_NOT_FOUND

\* C8: update_wish, delete_wish, upload_wish_image, delete_wish_image,
\* archive_wish and unarchive_wish called on an existing wish by a user who
\* does not own it answer 403 and leave the wish table as it was: a step
\* either is such a refusal, or is not one of these requests made by a
\* user who does not own the wish.
C8_NonOwnerMutationForbidden ==
    [][\/ (last'.status = HTTP_403_FORBIDDEN /\ wish' = wish)
       \/
          /\ last'.op = "update_wish"
             => \A u \in Users, w \in DOMAIN wish :
                   wish[w].user_id # u => ~(\E n \in Names : update_wish(u, w, n))
          /\ last'.op = "delete_wish"
             => \A u \in Users, w \in DOMAIN wish :
                   wish[w].user_id # u => ~(delete_wish(u, w))
          /\ last'.op = "upload_wish_image"
             => \A u \in Users, w \in DOMAIN wish :
                   wish[w].user_id # u => ~(upload_wish_image(u, w))
          /\ last'.op = "delete_wish_image"
             => \A u \in Users, w \in DOMAIN wish :
                   wish[w].user_id # u => ~(delete_wish_image(u, w))
          /\ last'.op = "archive_wish"
             => \A u \in Users, w \in DOMAIN wish :
                   wish[w].user_id # u => ~(archive_wish(u, w))
          /\ last'.op = "unarchive_wish"
             => \A u \in Users, w \in DOMAIN wish :
                   wish[w].user_id # u => ~(unarchive_wish(u, w))]_vars

\* A mutation of somebody else's wish has just been refused.
C8_Witness ==
    /\ last.op \in {"update_wish", "delete_wish", "upload_wish_image",
                    "delete_wish_image", "archive_wish", "unarchive_wish"}
    /\ last.status = HTTP_403_FORBIDDEN
    /\ DOMAIN wish # {}

\* C9: my_wishes, my_reserved_wishes and user_wishes return exactly the
\* non-archived wishes owned by the caller, reserved by the caller and owned
\* by the given user, archived_wishes returns exactly the caller's archived
\* wishes, and archive_wish moves a wish from my_wishes to archived_wishes
\* and unarchive_wish moves it back.
C9_Listings ==
    /\ [](\A c \in user :
             /\ my_wishes(c) =
                   {w \in DOMAIN wish :
                       wish[w].user_id = c /\ wish[w].is_archived = FALSE}
             /\ my_reserved_wishes(c) =
                   {w \in DOMAIN wish :
                       wish[w].reserved_by_id = c /\ wish[w].is_archived = FALSE}
             /\ user_wishes(c) =
                   [status |-> HTTP_200_OK,
                    rows |-> {w \in DOMAIN wish :
                                 wish[w].user_id = c
                                 /\ wish[w].is_archived = FALSE}]
             /\ archived_wishes(c) =
                   {w \in DOMAIN wish :
                       wish[w].user_id = c /\ wish[w].is_archived = TRUE})
    /\ [][last'.op \in {"archive_wish", "unarchive_wish"}
          => \A u \in Users, w \in DOMAIN wish :
                /\ (last' = Ok("archive_wish") /\ archive_wish(u, w))
                   => (w \notin my_wishes(u)' /\ w \in archived_wishes(u)')
                /\ (last' = Ok("unarchive_wish") /\ unarchive_wish(u, w))
                   => (w \in my_wishes(u)'
                       /\ w \notin archived_wishes(u)')]_vars

\* A reserved wish has just been archived: it has left my_wishes and
\* my_reserved_wishes and is in the owner's archived_wishes.
C9_Witness ==
    /\ last = Ok("archive_wish")
    /\ \E w \in DOMAIN wish :
          /\ wish[w].reserved_by_id \in user
          /\ w \in archived_wishes(wish[w].user_id)
          /\ w \notin my_wishes(wish[w].user_id)
          /\ w \notin my_reserved_wishes(wish[w].reserved_by_id)

\* C10: follow_user(u, v) with u # v and v an existing user answers 200
\* whether or not u already follows v, and leaves exactly the one edge
\* <<u, v>> between them.
C10_FollowIdempotent ==
    [][\A u \in Users, v \in user :
          (follow_user(u, v) /\ u # v)
          => /\ last'.status = HTTP_200_OK
             /\ user_following' = user_following \cup {<<u, v>>}
             /\ Cardinality({e \in user_following' : e = <<u, v>>}) = 1]_vars

\* A user has just followed another one and the edge is there.
C10_Witness ==
    /\ last = Ok("follow_user")
    /\ \E e \in user_following : e[2] \in follows(e[1])

\* C11: unfollow_user(u, v) on an existing user v answers 200 whether or not
\* u follows v, removes the edge <<u, v>> when it is there and changes no
\* other edge; so after follow, follow, unfollow, unfollow the edge counts
\* are 1, 1, 0, 0.
C11_UnfollowIdempotent ==
    [][last'.op = "unfollow_user"
       => \A u \in Users, v \in user :
             unfollow_user(u, v)
             => /\ last'.status = HTTP_200_OK
                /\ user_following' = user_following \ {<<u, v>>}
                /\ Cardinality({e \in user_following' : e = <<u, v>>}) = 0]_vars

\* An unfollow has just succeeded, the edge is gone and the opposite edge is
\* still there.
C11_Witness ==
    /\ last = Ok("unfollow_user")
    /\ \E u \in user, v \in user :
          /\ <<u, v>> \notin user_following
          /\ <<v, u>> \in user_following

\* C12: follow_user(u, u) never answers 200 and writes nothing, and in every
\* reachable state user_following holds no edge <<u, u>> and holds each
\* <<follower, followed>> pair at most once.
C12_NoSelfFollow ==
    /\ [](\A e \in user_following :
             /\ e[1] # e[2]
             /\ Cardinality({f \in user_following : f = e}) = 1)
    /\ [][last'.op = "follow_user"
          => \A u \in Users :
                follow_user(u, u)
                => /\ last'.status # HTTP_200_OK
                   /\ user_following' = user_following]_vars

\* A user has just tried to follow themselves while following somebody
\* else.
C12_Witness ==
    /\ last = InternalServerError("follow_user")
    /\ user = Users
    /\ user_following # {}

\* C13: once delete_own_account has succeeded for u, no wish owned by u and
\* no follow edge from or to u exists, now or later; the wishes that u
\* neither owned nor had reserved and the edges between other users are as
\* they were, and nothing was added.
C13_AccountDeletionCascades ==
    /\ [](/\ \A w \in DOMAIN wish : wish[w].user_id \in user
          /\ \A e \in user_following : e[1] \in user /\ e[2] \in user)
    /\ [][last' = Ok("delete_own_account")
          => \A u \in user :
                delete_own_account(u, TRUE)
                => /\ u \notin user'
                   /\ \A w \in DOMAIN wish' : wish'[w].user_id # u
                   /\ \A e \in user_following' : e[1] # u /\ e[2] # u
                   /\ DOMAIN wish' \subseteq DOMAIN wish
                   /\ \A w \in DOMAIN wish :
                         (wish[w].user_id # u /\ wish[w].reserved_by_id # u)
                         => (w \in DOMAIN wish' /\ wish'[w] = wish[w])
                   /\ user_following' =
                         {e \in user_following : e[1] # u /\ e[2] # u}]_vars

\* An account has just been deleted while another user's wish and an edge
\* between two other users are still there.
C13_Witness ==
    /\ last = Ok("delete_own_account")
    /\ user # Users
    /\ DOMAIN wish # {}
    /\ user_following # {}

\* C14: what search_users returns never holds the caller and never holds
\* more than 20 users, whatever the query and the user table, and is empty
\* when the query is empty or made of whitespace only.
C14_SearchExcludesCaller ==
    last.op = "search_users"
    => /\ search.current_user \notin search.found_users
       /\ Cardinality(search.found_users) <= 20
       /\ (\A i \in DOMAIN search.q : search.q[i] = " ")
             => search.found_users = {}

\* A search has just returned 20 users although more than 20 other users
\* match the query, the caller among the users whose name matches.
C14_Witness ==
    /\ last = Ok("search_users")
    /\ Cardinality(search.found_users) = 20
    /\ Cardinality(search_users_query(strip(search.q), search.current_user)) > 20
    /\ icontains(display_name[search.current_user], strip(search.q))

\* C15: after any sequence of auth_firebase and auth_vk calls no two user
\* rows share an e-mail, a vk_id or a firebase_uid; and auth_vk carrying the
\* e-mail of a row that has no vk_id, for a VK user no row is linked to,
\* answers 200 and links that row instead of creating one.
C15_OneRowPerIdentity ==
    /\ [](\A a \in user, b \in user :
             a # b => /\ identity[a].firebase_uid # identity[b].firebase_uid
                      /\ identity[a].email = NoEmail
                         \/ identity[a].email # identity[b].email
                      /\ identity[a].vk_id = NoVkId
                         \/ identity[a].vk_id # identity[b].vk_id)
    /\ [][last'.op = "auth_vk"
          => \A v \in VkIds, e \in Emails, x \in BOOLEAN, r \in user :
                (/\ identity[r].email = e
                 /\ identity[r].vk_id = NoVkId
                 /\ \A o \in user : identity[o].vk_id # v
                 /\ auth_vk(v, e, x))
                => /\ last'.status = HTTP_200_OK
                   /\ user' = user
                   /\ identity' = [identity EXCEPT ![r].vk_id = v]]_vars

\* A VK login has just been linked to the row a Firebase login created:
\* one row, with the e-mail, a vk_id and the uid it had.
C15_Witness ==
    /\ last = Ok("auth_vk")
    /\ Cardinality(user) = 1
    /\ \A r \in user : identity[r].email \in Emails /\ identity[r].vk_id \in VkIds

\* C16 as stated: no auth_vk or auth_firebase call ends in an unhandled
\* exception; a write that would break the uniqueness of email, vk_id or
\* firebase_uid is answered with 409 Conflict.
C16_ConflictNeverUnhandled ==
    last.op \in {"auth_vk", "auth_firebase"}
    => last.status # HTTP_500_INTERNAL_SERVER_ERROR

\* C17 as stated: a run of send_reservation_notifincations or of
\* send_wish_creation_notifications, however it ends, loses no notification:
\* for every wish it selected, either the push was sent in that run (to the
\* owner's device for a reservation, to every follower's device for a
\* creation) or the wish is still unmarked and selected by the next run.
C17_NoNotificationLost ==
    [][/\ last'.op = "send_reservation_notifincations"
          => \A w \in reserved_not_notified :
                \/ w \in reserved_not_notified'
                \/ sent(Message(firebase_push_token[wish[w].user_id],
                                "reservation", NoUser))
       /\ last'.op = "send_wish_creation_notifications"
          => \A w \in wishes_filter_cond :
                \/ w \in wishes_filter_cond'
                \/ \A f \in followed_by(wish[w].user_id) :
                      firebase_push_token[f] # NoToken
                      => sent(Message(firebase_push_token[f], "wish_creation",
                                      wish[w].user_id))]_vars

\* C19 as stated: with the reservation scan run again and again, every
\* successful reserve_wish that leaves a wish reserved while its owner holds
\* a push token is eventually followed by one more reservation push to that
\* token (or the owner's token is replaced).
C19_ReservationEventuallyPushed ==
    \A w \in WishIds, t \in Tokens, n \in 0..1 :
       [](/\ last = Ok("reserve_wish")
          /\ w \in DOMAIN wish
          /\ wish[w].reserved_by_id # NoUser
          /\ firebase_push_token[wish[w].user_id] = t
          /\ reservation_pushes(t) = n
          => <>(\/ reservation_pushes(t) > n
                \/ w \notin DOMAIN wish
                \/ firebase_push_token[wish[w].user_id] # t))

\* C18: when one of the four scans runs right after a run of the same scan,
\* with the tables and the clock as that run left them, it hands no message
\* to Firebase and changes no row of user, wish, user_following or
\* push_sending_log.
C18_RerunChangesNothing ==
    [][(runs > 0 /\ last'.op \in Scans /\ last'.op = last.op)
       => /\ pushes' = pushes
          /\ wish' = wish
          /\ push_sending_log' = push_sending_log
          /\ UNCHANGED <<user, user_following, firebase_push_token, birth_date,
                         created_at,
                         pre_bday_push_for_followers_last_sent_at>>]_vars

\* The reservation scan has run twice on a table with two reserved wishes of
\* token holders, which the first run marked.
C18_Witness ==
    /\ runs = 2
    /\ last.op = "send_reservation_notifincations"
    /\ Cardinality({w \in DOMAIN wish :
                       /\ wish[w].reserved_by_id # NoUser
                       /\ wish[w].is_reservation_notification_sent
                       /\ firebase_push_token[wish[w].user_id] # NoToken}) = 2

C21_SelectedUserStamped ==
    /\ [](\A u \in Users : \A m1, m2 \in followers_birthday_pushes(u) :
             (m1.token = m2.token /\ m1.at <= m2.at /\ m1 # m2)
                => m2.at - m1.at >= FollowersCooldownDays * MinutesPerDay)
    /\ [][last'.op = "send_upcoming_birthday_of_followed_user_notification"
            => \A u \in users_to_announce :
                  pre_bday_push_for_followers_last_sent_at'[u] = now]_vars

C23_MarkOnlySelected ==
    [][last'.op = "send_reservation_notifincations"
          => \A w \in DOMAIN wish \ reserved_not_notified :
                wish'[w].is_reservation_notification_sent
                   = wish[w].is_reservation_notification_sent]_vars

\* C24: in one run of the creation scan every follower holding a push token
\* is handed exactly one push about each owner who has a wish older than the
\* delay with the creation flag false, and none about any other owner; the
\* run marks exactly the wishes older than the delay.
C24_OnePushPerOwner ==
    [][last'.op = "send_wish_creation_notifications"
          => /\ \A w \in DOMAIN wish :
                   wish'[w].is_creation_notification_sent
                      = (\/ wish[w].is_creation_notification_sent
                         \/ w \in wishes_filter_cond)
             /\ \A o \in Users, t \in Tokens :
                   LET m == Message(t, "wish_creation", o)
                       holders == {f \in followed_by(o) :
                                      firebase_push_token[f] = t}
                   IN  CopiesIn(m, pushes') - CopiesIn(m, pushes)
                          = IF \E w \in wishes_filter_cond :
                                  wish[w].user_id = o
                            THEN Cardinality(holders) ELSE 0]_vars

\* C25: the notification about a new follower is attempted only after a
\* follow_user request that added the edge, committed it and was answered
\* 200, never for an edge already present; the attempt, whether it sends,
\* fails or is skipped for lack of a token, leaves every follow edge in
\* place; and a push about a new follower is handed over only by such an
\* attempt to a target that holds a token.
C25_FollowCommittedBeforeNotification ==
    [][/\ \A task \in background_tasks' \ background_tasks :
            /\ last' = Ok("follow_user")
            /\ <<task.follower, task.target>>
                  \in user_following' \ user_following
       /\ last'.op = "send_push_about_new_follower"
            => /\ user_following' = user_following
               /\ \E task \in background_tasks \ background_tasks' :
                     pushes' # pushes
                        => /\ firebase_push_token[task.target] # NoToken
                           /\ last'.status = 0
       /\ pushes' # pushes => last'.op = "send_push_about_new_follower"
       /\ (last'.op = "follow_user" /\ user_following' = user_following)
            => background_tasks' = background_tasks]_vars

\* The notification about the follow of user 2 by user 1 has just failed
\* although user 2 holds a token; the edge is in place.
C25_Witness ==
    /\ last = Traceback("send_push_about_new_follower", "Exception")
    /\ <<1, 2>> \in user_following
    /\ firebase_push_token[2] # NoToken
    /\ background_tasks = {}
    /\ pushes = EmptyBag

\* C26: for every birth date, 29 February included, and every current date,
\* in a leap year or not, get_next_birthday raises nothing and returns the
\* first midnight not earlier than now whose month and day are those of the
\* birth date.
C26_NextBirthdayIsNextOccurrence ==
    LET call == birthday
        today == Ordinal(call.now.year, call.now.date)
        earliest == IF call.now.minute = 0 THEN today ELSE today + 1
        result == call.next_birthday
    IN  last.op = "get_next_birthday"
        => /\ ~result.raised
           /\ result.day >= earliest
           /\ DateOf(result.day) = call.birth_date
           /\ \A day \in earliest..(result.day - 1) :
                 DateOf(day) # call.birth_date

\* C27: cancel_wish_reservation by the user who holds the reservation of a
\* wish that has been archived in the meantime answers 200 and clears
\* reserved_by; it answers 404 for no wish that exists, archived or not;
\* and reserve_wish on such an archived, reserved wish answers 404 and
\* changes nothing.
C27_CancelIgnoresArchive ==
    [][/\ last'.op = "cancel_wish_reservation"
          => /\ \A a \in Users, w \in DOMAIN wish :
                   (/\ wish[w].is_archived
                    /\ wish[w].reserved_by_id = a
                    /\ cancel_wish_reservation(a, w))
                   => /\ last' = Ok("cancel_wish_reservation")
                      /\ wish' = [wish EXCEPT ![w].reserved_by_id = NoUser]
             /\ last'.status = HTTP_404_NOT_FOUND
                   => \A u \in Users, w \in DOMAIN wish :
                         ~cancel_wish_reservation(u, w)
       /\ last'.op = "reserve_wish"
          => \A u \in Users, w \in DOMAIN wish :
                (/\ wish[w].is_archived
                 /\ wish[w].reserved_by_id # NoUser
                 /\ reserve_wish(u, w))
                => (last'.status = HTTP_404_NOT_FOUND /\ wish' = wish)]_vars

\* A cancellation has just succeeded on an archived wish, which is free now.
C27_Witness ==
    /\ last = Ok("cancel_wish_reservation")
    /\ \E w \in DOMAIN wish :
          /\ wish[w].is_archived
          /\ wish[w].reserved_by_id = NoUser
          /\ wish[w].user_id \in user

\* C28: reserved_by of every wish is unset or an existing user, always; a
\* successful delete_own_account of a user leaves every wish that user had
\* reserved in place, with its owner and its other columns, and with
\* reserved_by unset, so that get_active_wish_query and the guards of
\* reserve_wish treat it as any unreserved wish.
C28_ReservedByExists ==
    /\ [](\A w \in DOMAIN wish : wish[w].reserved_by_id \in user \cup {NoUser})
    /\ [][last' = Ok("delete_own_account")
          => \A u \in user \ user', w \in DOMAIN wish :
                wish[w].reserved_by_id = u
                => /\ w \in DOMAIN wish'
                   /\ wish'[w] = [wish[w] EXCEPT !.reserved_by_id = NoUser]
                   /\ wish'[w].user_id \in user']_vars

\* An account has just been deleted; a wish of another user is in place,
\* active and unreserved.
C28_Witness ==
    /\ last = Ok("delete_own_account")
    /\ \E w \in get_active_wish_query :
          /\ wish[w].reserved_by_id = NoUser
          /\ wish[w].user_id \in user
          /\ user # Users

\* C29 as stated: auth_vk_mobile answers 200 for an existing row only when
\* the VK identity of the access token is the vk_id of that row, whatever
\* e-mail the body carries; and no auth_vk call replaces a vk_id stored on a
\* row with a different one.
C29_EmailNeverSelectsUser ==
    [][last' = Ok("auth_vk")
          => /\ \A v \in VkIds, e \in Emails \cup {NoEmail}, x \in BOOLEAN :
                   auth_vk_mobile(v, e, x)
                   => \A r \in user :
                         identity'[r].vk_id = v => identity[r].vk_id = v
             /\ \A r \in user :
                   identity[r].vk_id # NoVkId
                   => identity'[r].vk_id = identity[r].vk_id]_vars

\* C30: a step of update_wish, upload_wish_image, delete_wish_image,
\* archive_wish or unarchive_wish leaves the set of wishes and, of every
\* wish, the owner, reserved_by and the two notification flags as they
\* were; reserved_by of a wish changes only in a step of reserve_wish,
\* cancel_wish_reservation or delete_own_account; and the owner of a wish
\* never changes while the wish exists.
C30_EditsKeepOwnerAndReservation ==
    [][/\ last'.op \in {"update_wish", "upload_wish_image",
                        "delete_wish_image", "archive_wish",
                        "unarchive_wish"}
          => /\ DOMAIN wish' = DOMAIN wish
             /\ \A w \in DOMAIN wish :
                   /\ wish'[w].user_id = wish[w].user_id
                   /\ wish'[w].reserved_by_id = wish[w].reserved_by_id
                   /\ wish'[w].is_reservation_notification_sent
                         = wish[w].is_reservation_notification_sent
                   /\ wish'[w].is_creation_notification_sent
                         = wish[w].is_creation_notification_sent
       /\ \A w \in DOMAIN wish \cap DOMAIN wish' :
             /\ wish'[w].user_id = wish[w].user_id
             /\ wish'[w].reserved_by_id # wish[w].reserved_by_id
                   => last'.op \in {"reserve_wish", "cancel_wish_reservation",
                                    "delete_own_account"}]_vars

\* An image has just been stored for a wish that is reserved and has both
\* notification flags set.
C30_Witness ==
    /\ last = Ok("upload_wish_image")
    /\ \E w \in DOMAIN wish :
          /\ wish[w].image = ImageHash
          /\ wish[w].reserved_by_id \in user
          /\ wish[w].is_reservation_notification_sent
          /\ wish[w].is_creation_notification_sent

====
